---- MODULE Spec2Model ----
(***************************************************************************)
(* Channel participation on one ordering service node: the registrar that  *)
(* holds, per channel ID, a consensus chain or a follower chain, the join  *)
(* and remove requests of the channel participation API, and the commits   *)
(* that move a channel's height, status and consensus relation.            *)
(*                                                                         *)
(* The node is observed the way integration/raft/channel_participation     *)
(* test observes it: through the join/remove responses and the channel     *)
(* info {status, consensusRelation, height}.  The rest of the ordering     *)
(* service is the environment: for every channel the chain of blocks its   *)
(* consensus group has committed.  A block is reduced to what the node's   *)
(* registrar reads from it: whether it is a configuration block and        *)
(* whether this node is in its consenter set.                              *)
(***************************************************************************)
EXTENDS Integers, Sequences, FiniteSets, Bags, TLC

\* Bounds of the model.
MaxHeight == 3
MaxBlocks == 4
MaxInflight == 2
MaxTasks == 2
MaxFetched == 2

AppChannels == {"c1", "c2"}
SysChannel == "systemchannel"
Channels == AppChannels \cup {SysChannel}

\* A configuration block whose consenter set holds this node / does not.
ConfigIn == "cfgIn"
ConfigOut == "cfgOut"
\* An ordinary transaction block.
TxBlock == "tx"

VARIABLES
    chain,            \* per channel: the blocks its consensus group committed
    chains,           \* channel IDs the registrar holds a consensus.Chain for
    followers,        \* channel IDs the registrar holds a follower.Chain for
    info,             \* per channel ID: status, relation, height, join block
    systemChannelID,  \* "" or the ID of the system channel held by the node
    sysStarted,       \* the system channel's chain was started at process start
    resp,             \* the response of the request handled by the last step
    inflight,         \* requests received and not yet handled by the registrar
    cli,              \* one run of the osnadmin command line: flags, files, outcome
    tasks,            \* per channel: the generation of its task, and blocks fetched by tasks
    ledgers           \* per orderer and channel: whether it holds the channel, its ledger

vars == <<chain, chains, followers, info, systemChannelID, sysStarted, resp, inflight, cli, tasks, ledgers>>

----------------------------------------------------------------------------
\* Blocks

IsConfigKind(k) == k \in {ConfigIn, ConfigOut}

\* The block with number n of a channel's chain, as a join request carries it.
BlockOf(ch, n) == [num |-> n, kind |-> chain[ch][n + 1], sys |-> ch = SysChannel]

\* &common.Block{}: no header, no data.
EmptyBlock == [num |-> 0, kind |-> "empty", sys |-> FALSE]

IsConfigBlock(blk) == IsConfigKind(blk.kind)

IsMember(blk) == blk.kind = ConfigIn

IsAppChannel(blk) == ~blk.sys

\* The blocks a join request for ch may carry: any block of the channel's
\* chain, or an empty block.
JoinBlocks(ch) == {BlockOf(ch, n) : n \in 0 .. Len(chain[ch]) - 1} \cup {EmptyBlock}

TotalBlocks == Len(chain["c1"]) + Len(chain["c2"]) + Len(chain[SysChannel])

----------------------------------------------------------------------------
\* Registrar state

NoInfo == [status |-> "none", relation |-> "none", height |-> 0, joinNum |-> -1]

NoResp == [op |-> "none", ch |-> "", err |-> "none", code |-> 0,
           status |-> "none", relation |-> "none", height |-> 0]

Entries == chains \cup followers

\* The per-channel tasks of the node: the number of the task a channel's entry
\* runs, and the blocks tasks have fetched and not yet handed over.
NoTasks == [gen |-> [c \in AppChannels |-> 0], fetched |-> {}, last |-> "none"]

\* The orderers of the network whose ledgers are compared.
Orderers == {"orderer1", "orderer2"}

NoLedgers == [o \in Orderers |-> [c \in AppChannels |-> [held |-> FALSE, blocks |-> <<>>]]]

\* The ledger of a channel on this node: the first height blocks of the chain.
Ledger(ch) == SubSeq(chain[ch], 1, info[ch].height)

RECURSIVE LastConfigIn(_)
LastConfigIn(s) ==
    IF s = <<>> THEN -1
    ELSE IF IsConfigKind(s[Len(s)]) THEN Len(s) - 1
    ELSE LastConfigIn(SubSeq(s, 1, Len(s) - 1))

\* Number of the latest configuration block in the node's ledger, -1 if none.
LastConfigBlockNumber(ch) == LastConfigIn(Ledger(ch))

ChannelInfo(ch) ==
    [status |-> info[ch].status, relation |-> info[ch].relation, height |-> info[ch].height]

\* The address of the details of a channel.
ChannelURL(name) == "/participation/v1/channels/" \o name

ChannelInfoShort(ch) == [name |-> ch, url |-> ChannelURL(ch)]

\* Faulty variant: the list reports every entry under channels, the system
\* channel too, and no system channel apart.
ChannelListAllEntries ==
    [systemChannel |-> {},
     channels |-> SetToBag({ChannelInfoShort(ch) : ch \in chains})
                  (+) SetToBag({ChannelInfoShort(ch) : ch \in followers})]

\* The channel list: the registrar walks its consensus.Chains and then its
\* follower.Chains and appends a short entry for each, the system channel
\* apart.  channels is a bag, as the same entry could be appended twice;
\* systemChannel is empty for the nil pointer.
ChannelList ==
    [systemChannel |-> IF systemChannelID # "" /\ systemChannelID \in Entries
                       THEN {ChannelInfoShort(systemChannelID)} ELSE {},
     channels |-> SetToBag({ChannelInfoShort(ch) : ch \in chains \ {systemChannelID}})
                  (+) SetToBag({ChannelInfoShort(ch) : ch \in followers \ {systemChannelID}})]

\* No run of the command line.
NoRun ==
    [command |-> "", channelID |-> "", keyPair |-> "", caFile |-> "", configBlock |-> "",
     pc |-> "idle", out |-> "", code |-> -1, sent |-> 0]

\* The node starts without channels (BootstrapMethod "none"), or bootstrapped
\* with the genesis block of the system channel (BootstrapMethod "file").
InitNone ==
    /\ chains = {}
    /\ followers = {}
    /\ info = [c \in Channels |-> NoInfo]
    /\ chain = [c \in Channels |-> <<>>]
    /\ systemChannelID = ""
    /\ sysStarted = FALSE
    /\ resp = NoResp
    /\ inflight = {}
    /\ cli = NoRun
    /\ tasks = NoTasks
    /\ ledgers = NoLedgers

InitFile ==
    /\ chains = {SysChannel}
    /\ followers = {}
    /\ info = [c \in Channels |->
                 IF c = SysChannel
                 THEN [status |-> "active", relation |-> "consenter", height |-> 1, joinNum |-> -1]
                 ELSE NoInfo]
    /\ chain = [c \in Channels |-> IF c = SysChannel THEN <<ConfigIn>> ELSE <<>>]
    /\ systemChannelID = SysChannel
    /\ sysStarted = TRUE
    /\ resp = NoResp
    /\ inflight = {}
    /\ cli = NoRun
    /\ tasks = NoTasks
    /\ ledgers = NoLedgers

Init == InitNone \/ InitFile

----------------------------------------------------------------------------
\* The environment: what the channels' consensus groups commit

\* The consensus group of an application channel commits a block.  The first
\* block of a chain is the channel's genesis block, a configuration block.
ClusterCommit(ch, k) ==
    /\ ch \in AppChannels
    /\ TotalBlocks < MaxBlocks
    /\ Len(chain[ch]) < MaxHeight
    /\ k \in {ConfigIn, ConfigOut, TxBlock}
    /\ chain[ch] = <<>> => IsConfigKind(k)
    /\ chain' = [chain EXCEPT ![ch] = Append(@, k)]
    /\ resp' = NoResp
    /\ UNCHANGED <<chains, followers, info, systemChannelID, sysStarted, inflight, cli, tasks, ledgers>>

\* The system channel's consensus group commits its genesis block or a later
\* configuration block.
ClusterCommitSys(k) ==
    /\ TotalBlocks < MaxBlocks
    /\ Len(chain[SysChannel]) < MaxHeight
    /\ k \in {ConfigIn, ConfigOut}
    /\ chain' = [chain EXCEPT ![SysChannel] = Append(@, k)]
    /\ resp' = NoResp
    /\ UNCHANGED <<chains, followers, info, systemChannelID, sysStarted, inflight, cli, tasks, ledgers>>

\* network.CreateChannel: the system channel orders the creation of
\* application channel ch, whose genesis block is of kind g.  The system
\* chain's block is written as the ID of the channel it creates.
ClusterCreateChannel(ch, g) ==
    /\ ch \in AppChannels
    /\ g \in {ConfigIn, ConfigOut}
    /\ chain[SysChannel] # <<>>
    /\ chain[ch] = <<>>
    /\ TotalBlocks + 1 < MaxBlocks
    /\ Len(chain[SysChannel]) < MaxHeight
    /\ chain' = [chain EXCEPT ![SysChannel] = Append(@, ch), ![ch] = <<g>>]
    /\ resp' = NoResp
    /\ UNCHANGED <<chains, followers, info, systemChannelID, sysStarted, inflight, cli, tasks, ledgers>>

----------------------------------------------------------------------------
\* Faulty variants of the definitions below, used to show that the properties
\* at the end of the module depend on them.

\* Every join of an application channel starts onboarding at height 0.
JoinInfoAlwaysOnboard(blk) ==
    [status |-> IF IsAppChannel(blk) THEN "onboarding" ELSE "inactive",
     relation |-> IF IsMember(blk) THEN "consenter" ELSE "follower",
     height |-> 0, joinNum |-> blk.num]

\* A join with a later configuration block reports the channel active at
\* once.
JoinInfoNoOnboarding(blk) ==
    [status |-> IF IsAppChannel(blk) THEN "active" ELSE "inactive",
     relation |-> IF IsMember(blk) THEN "consenter" ELSE "follower",
     height |-> IF blk.num = 0 THEN 1 ELSE 0, joinNum |-> blk.num]

\* Faulty variant: a joined system channel is active at once, without a
\* restart of the node.
JoinInfoSystemActive(blk) ==
    IF ~IsAppChannel(blk)
    THEN [status |-> "active", relation |-> "consenter",
          height |-> IF blk.num = 0 THEN 1 ELSE 0, joinNum |-> blk.num]
    ELSE IF blk.num = 0 /\ IsMember(blk)
    THEN [status |-> "active", relation |-> "consenter", height |-> 1, joinNum |-> 0]
    ELSE [status |-> "onboarding",
          relation |-> IF IsMember(blk) THEN "consenter" ELSE "follower",
          height |-> 0, joinNum |-> blk.num]

\* The join does not validate the block.
JoinErrorNoBlockCheck(ch, blk) ==
    IF systemChannelID # "" THEN "SystemChannelExists"
    ELSE IF ch \in Entries THEN "ChannelAlreadyExists"
    ELSE IF ~IsAppChannel(blk) /\ Entries # {} THEN "ApplicationChannelsExist"
    ELSE "none"

\* The join does not look for an entry of the channel ID.
JoinErrorNoExistsCheck(ch, blk) ==
    IF ~IsConfigBlock(blk) THEN "InvalidJoinBlock"
    ELSE IF systemChannelID # "" THEN "SystemChannelExists"
    ELSE IF ~IsAppChannel(blk) /\ Entries # {} THEN "ApplicationChannelsExist"
    ELSE "none"

\* Faulty variant: the join looks for an entry of the channel ID before it
\* looks for the system channel.
JoinErrorExistsFirst(ch, blk) ==
    IF ~IsConfigBlock(blk) THEN "InvalidJoinBlock"
    ELSE IF ch \in Entries THEN "ChannelAlreadyExists"
    ELSE IF systemChannelID # "" THEN "SystemChannelExists"
    ELSE IF ~IsAppChannel(blk) /\ Entries # {} THEN "ApplicationChannelsExist"
    ELSE "none"

\* The join does not look for the system channel.
JoinErrorNoSystemCheck(ch, blk) ==
    IF ~IsConfigBlock(blk) THEN "InvalidJoinBlock"
    ELSE IF ch \in Entries THEN "ChannelAlreadyExists"
    ELSE IF ~IsAppChannel(blk) /\ Entries # {} THEN "ApplicationChannelsExist"
    ELSE "none"

\* The join of a system channel does not look for application channels.
JoinErrorNoAppChannelsCheck(ch, blk) ==
    IF ~IsConfigBlock(blk) THEN "InvalidJoinBlock"
    ELSE IF systemChannelID # "" THEN "SystemChannelExists"
    ELSE IF ch \in Entries THEN "ChannelAlreadyExists"
    ELSE "none"

\* The channel ID of the follower.Chain map is looked up only.
JoinErrorFollowersOnly(ch, blk) ==
    IF ~IsConfigBlock(blk) THEN "InvalidJoinBlock"
    ELSE IF systemChannelID # "" THEN "SystemChannelExists"
    ELSE IF ch \in followers THEN "ChannelAlreadyExists"
    ELSE IF ~IsAppChannel(blk) /\ Entries # {} THEN "ApplicationChannelsExist"
    ELSE "none"

\* The remove does not look for the entry of the channel ID.
RemoveErrorNoExistsCheck(ch) ==
    IF systemChannelID # "" /\ ch # systemChannelID THEN "SystemChannelExists"
    ELSE "none"

\* The remove does not look for the system channel.
RemoveErrorNoSystemCheck(ch) ==
    IF ch \notin Entries THEN "ChannelNotExist" ELSE "none"

\* The ledger is truncated by a block instead of extended.
HeightAfterTruncate(h) == IF h > 0 THEN h - 1 ELSE 1

\* The consenter set of the configuration block is not read.
RelationStaysConsenter(k) == "consenter"

----------------------------------------------------------------------------
\* The channel participation API

HTTPStatus(op, err) ==
    CASE err = "InvalidJoinBlock" -> 400
      [] err = "ChannelAlreadyExists" -> 405
      [] err = "SystemChannelExists" -> 405
      [] err = "ApplicationChannelsExist" -> 403
      [] err = "ChannelNotExist" -> 404
      [] OTHER -> IF op = "join" THEN 201 ELSE IF op = "remove" THEN 204 ELSE 200

\* Why a join request is rejected, "none" when it is accepted.
JoinError(ch, blk) ==
    IF ~IsConfigBlock(blk) THEN "InvalidJoinBlock"
    ELSE IF systemChannelID # "" THEN "SystemChannelExists"
    ELSE IF ch \in Entries THEN "ChannelAlreadyExists"
    ELSE IF ~IsAppChannel(blk) /\ Entries # {} THEN "ApplicationChannelsExist"
    ELSE "none"

\* The entry a join creates.
JoinInfo(blk) ==
    IF ~IsAppChannel(blk)
    THEN [status |-> "inactive", relation |-> "consenter",
          height |-> IF blk.num = 0 THEN 1 ELSE 0, joinNum |-> blk.num]
    ELSE IF blk.num = 0 /\ IsMember(blk)
    THEN [status |-> "active", relation |-> "consenter", height |-> 1, joinNum |-> 0]
    ELSE [status |-> "onboarding",
          relation |-> IF IsMember(blk) THEN "consenter" ELSE "follower",
          height |-> 0, joinNum |-> blk.num]

\* Whether the entry a join creates is run by a consensus.Chain (otherwise by a
\* follower.Chain that pulls blocks).
JoinsAsChain(blk) == ~IsAppChannel(blk) \/ (blk.num = 0 /\ IsMember(blk))

Reply(op, ch, err, i) ==
    [op |-> op, ch |-> ch, err |-> err, code |-> HTTPStatus(op, err),
     status |-> i.status, relation |-> i.relation, height |-> i.height]

\* Faulty variant: a join of a channel the node holds is answered with the
\* error and yet replaces the entry by the one the join block gives.
JoinChannelRejectedOverwrites(ch, blk) ==
    LET err == JoinError(ch, blk) IN
    IF err = "ChannelAlreadyExists"
    THEN /\ resp' = Reply("join", ch, err, NoInfo)
         /\ info' = [info EXCEPT ![ch] = JoinInfo(blk)]
         /\ UNCHANGED <<chain, chains, followers, systemChannelID, sysStarted>>
    ELSE IF err # "none"
    THEN /\ resp' = Reply("join", ch, err, NoInfo)
         /\ UNCHANGED <<chain, chains, followers, info, systemChannelID, sysStarted>>
    ELSE /\ info' = [info EXCEPT ![ch] = JoinInfo(blk)]
         /\ chains' = IF JoinsAsChain(blk) THEN chains \cup {ch} ELSE chains
         /\ followers' = IF JoinsAsChain(blk) THEN followers ELSE followers \cup {ch}
         /\ systemChannelID' = IF IsAppChannel(blk) THEN systemChannelID ELSE ch
         /\ sysStarted' = IF IsAppChannel(blk) THEN sysStarted ELSE FALSE
         /\ resp' = Reply("join", ch, "none", JoinInfo(blk))
         /\ UNCHANGED chain

JoinChannel(ch, blk) ==
    LET err == JoinError(ch, blk) IN
    IF err # "none"
    THEN /\ resp' = Reply("join", ch, err, NoInfo)
         /\ UNCHANGED <<chain, chains, followers, info, systemChannelID, sysStarted>>
    ELSE /\ info' = [info EXCEPT ![ch] = JoinInfo(blk)]
         /\ chains' = IF JoinsAsChain(blk) THEN chains \cup {ch} ELSE chains
         /\ followers' = IF JoinsAsChain(blk) THEN followers ELSE followers \cup {ch}
         /\ systemChannelID' = IF IsAppChannel(blk) THEN systemChannelID ELSE ch
         /\ sysStarted' = IF IsAppChannel(blk) THEN sysStarted ELSE FALSE
         /\ resp' = Reply("join", ch, "none", JoinInfo(blk))
         /\ UNCHANGED chain

\* Why a remove request is rejected, "none" when it is accepted.
RemoveError(ch) ==
    IF systemChannelID # "" /\ ch # systemChannelID THEN "SystemChannelExists"
    ELSE IF ch \notin Entries THEN "ChannelNotExist"
    ELSE "none"

\* Faulty variant: the remove of the system channel deletes the entry and
\* leaves the registrar's systemChannelID as it was.
RemoveChannelKeepsFlag(ch) ==
    LET err == RemoveError(ch) IN
    IF err # "none"
    THEN /\ resp' = Reply("remove", ch, err, NoInfo)
         /\ UNCHANGED <<chain, chains, followers, info, systemChannelID, sysStarted>>
    ELSE /\ chains' = chains \ {ch}
         /\ followers' = followers \ {ch}
         /\ info' = [info EXCEPT ![ch] = NoInfo]
         /\ resp' = Reply("remove", ch, "none", NoInfo)
         /\ UNCHANGED <<chain, systemChannelID, sysStarted>>

\* Faulty variant: the remove of the system channel rewrites the entries that
\* stay: a config-tracker of a channel created through it is a follower.
RemoveChannelRewritesTrackers(ch) ==
    LET err == RemoveError(ch) IN
    IF err # "none"
    THEN /\ resp' = Reply("remove", ch, err, NoInfo)
         /\ UNCHANGED <<chain, chains, followers, info, systemChannelID, sysStarted>>
    ELSE /\ chains' = chains \ {ch}
         /\ followers' = followers \ {ch}
         /\ info' = [c \in Channels |->
                       IF c = ch THEN NoInfo
                       ELSE IF ch = systemChannelID /\ info[c].relation = "config-tracker"
                       THEN [info[c] EXCEPT !.relation = "follower"]
                       ELSE info[c]]
         /\ systemChannelID' = IF ch = systemChannelID THEN "" ELSE systemChannelID
         /\ sysStarted' = IF ch = systemChannelID THEN FALSE ELSE sysStarted
         /\ resp' = Reply("remove", ch, "none", NoInfo)
         /\ UNCHANGED chain

\* Faulty variant: the remove drops the entry and leaves its ledger on disk.
RemoveChannelKeepsLedger(ch) ==
    LET err == RemoveError(ch) IN
    IF err # "none"
    THEN /\ resp' = Reply("remove", ch, err, NoInfo)
         /\ UNCHANGED <<chain, chains, followers, info, systemChannelID, sysStarted>>
    ELSE /\ chains' = chains \ {ch}
         /\ followers' = followers \ {ch}
         /\ systemChannelID' = IF ch = systemChannelID THEN "" ELSE systemChannelID
         /\ sysStarted' = IF ch = systemChannelID THEN FALSE ELSE sysStarted
         /\ resp' = Reply("remove", ch, "none", NoInfo)
         /\ UNCHANGED <<chain, info>>

\* Faulty variant: the remove deletes the ledger and the consensus.Chain and
\* leaves the follower.Chain, with its block puller, running.
RemoveChannelKeepsFollower(ch) ==
    LET err == RemoveError(ch) IN
    IF err # "none"
    THEN /\ resp' = Reply("remove", ch, err, NoInfo)
         /\ UNCHANGED <<chain, chains, followers, info, systemChannelID, sysStarted>>
    ELSE /\ chains' = chains \ {ch}
         /\ info' = [info EXCEPT ![ch] = NoInfo]
         /\ systemChannelID' = IF ch = systemChannelID THEN "" ELSE systemChannelID
         /\ sysStarted' = IF ch = systemChannelID THEN FALSE ELSE sysStarted
         /\ resp' = Reply("remove", ch, "none", NoInfo)
         /\ UNCHANGED <<chain, followers>>

\* Faulty variant: with the system channel go the channels created through it.
RemoveChannelDropsLegacy(ch) ==
    LET err == RemoveError(ch) IN
    IF err # "none"
    THEN /\ resp' = Reply("remove", ch, err, NoInfo)
         /\ UNCHANGED <<chain, chains, followers, info, systemChannelID, sysStarted>>
    ELSE /\ chains' = IF ch = systemChannelID THEN {} ELSE chains \ {ch}
         /\ followers' = IF ch = systemChannelID THEN {} ELSE followers \ {ch}
         /\ info' = IF ch = systemChannelID THEN [c \in Channels |-> NoInfo]
                    ELSE [info EXCEPT ![ch] = NoInfo]
         /\ systemChannelID' = IF ch = systemChannelID THEN "" ELSE systemChannelID
         /\ sysStarted' = IF ch = systemChannelID THEN FALSE ELSE sysStarted
         /\ resp' = Reply("remove", ch, "none", NoInfo)
         /\ UNCHANGED chain

RemoveChannel(ch) ==
    LET err == RemoveError(ch) IN
    IF err # "none"
    THEN /\ resp' = Reply("remove", ch, err, NoInfo)
         /\ UNCHANGED <<chain, chains, followers, info, systemChannelID, sysStarted>>
    ELSE /\ chains' = chains \ {ch}
         /\ followers' = followers \ {ch}
         /\ info' = [info EXCEPT ![ch] = NoInfo]
         /\ systemChannelID' = IF ch = systemChannelID THEN "" ELSE systemChannelID
         /\ sysStarted' = IF ch = systemChannelID THEN FALSE ELSE sysStarted
         /\ resp' = Reply("remove", ch, "none", NoInfo)
         /\ UNCHANGED chain

\* Faulty variant: the read of a channel waits while a request that writes the
\* entry of the channel is pending.
InfoBlocksOnWrite(ch) ==
    /\ \A req \in inflight : req.ch # ch
    /\ resp' = IF ch \in Entries THEN Reply("info", ch, "none", ChannelInfo(ch))
               ELSE Reply("info", ch, "ChannelNotExist", NoInfo)
    /\ UNCHANGED <<chain, chains, followers, info, systemChannelID, sysStarted, inflight, cli, tasks, ledgers>>

\* GET /participation/v1/channels/<ch>: the details of one channel, read from
\* the entry under the registrar's read lock.
Info(ch) ==
    /\ resp' = IF ch \in Entries THEN Reply("info", ch, "none", ChannelInfo(ch))
               ELSE Reply("info", ch, "ChannelNotExist", NoInfo)
    /\ UNCHANGED <<chain, chains, followers, info, systemChannelID, sysStarted, inflight, cli, tasks, ledgers>>

\* GET /participation/v1/channels: the list of the channels of the node.
List ==
    /\ resp' = [op |-> "list", ch |-> "", err |-> "none", code |-> HTTPStatus("list", "none"),
                status |-> "none", relation |-> "none", height |-> 0,
                body |-> ChannelList]
    /\ UNCHANGED <<chain, chains, followers, info, systemChannelID, sysStarted, inflight, cli, tasks, ledgers>>

----------------------------------------------------------------------------
\* Commits on the node

\* Faulty variant: a node that is no consenter stays what it is when a
\* configuration block adds it to the consenter set.
RelationNeverConsenter(k) ==
    IF systemChannelID # "" THEN "config-tracker"
    ELSE "follower"

\* Faulty variant: a node that is no consenter only tracks the configuration
\* of the channel, with or without system channel.
RelationAlwaysTracker(k) ==
    IF k = ConfigIn THEN "consenter"
    ELSE "config-tracker"

\* The relation the consenter set of a committed configuration block gives the
\* node: a node that is no consenter only tracks the configuration of a
\* channel while it holds the system channel, and follows the channel otherwise.
RelationAfterConfig(k) ==
    IF k = ConfigIn THEN "consenter"
    ELSE IF systemChannelID # "" THEN "config-tracker"
    ELSE "follower"

\* Faulty variant: a committed block counts twice.
HeightCountsTwice(h) == h + 2

\* The height after one more block is committed to the ledger.
HeightAfterCommit(h) == h + 1

\* Faulty variant: the entry the system channel creates reports no block
\* until the channel commits one.
CreatedInfoEmpty(g) ==
    IF g = ConfigIn
    THEN [status |-> "active", relation |-> "consenter", height |-> 0, joinNum |-> -1]
    ELSE [status |-> "inactive", relation |-> "config-tracker", height |-> 0, joinNum |-> -1]

\* The entry of an application channel that the system channel creates on
\* this node, from the channel's genesis block.
CreatedInfo(g) ==
    IF g = ConfigIn
    THEN [status |-> "active", relation |-> "consenter", height |-> 1, joinNum |-> -1]
    ELSE [status |-> "inactive", relation |-> "config-tracker", height |-> 1, joinNum |-> -1]

\* Faulty variant: the chain of a channel keeps committing after the node was
\* excluded from the channel under a system channel.
CommitBlockTrackerCommits(ch) ==
    /\ ch \in chains \cap AppChannels
    /\ info[ch].relation \in {"consenter", "config-tracker"}
    /\ info[ch].height < Len(chain[ch])
    /\ LET k == chain[ch][info[ch].height + 1]
           rel == IF IsConfigKind(k) THEN RelationAfterConfig(k) ELSE info[ch].relation
       IN /\ info' = [info EXCEPT ![ch].height = HeightAfterCommit(@),
                                  ![ch].relation = rel,
                                  ![ch].status = IF rel = "config-tracker" THEN "inactive" ELSE @]
          /\ chains' = IF rel = "follower" THEN chains \ {ch} ELSE chains
          /\ followers' = IF rel = "follower" THEN followers \cup {ch} ELSE followers
    /\ resp' = NoResp
    /\ UNCHANGED <<chain, systemChannelID, sysStarted, inflight, cli, tasks, ledgers>>

\* The consensus.Chain of an application channel commits the next block of the
\* channel.  A configuration block without this node evicts it: the chain halts
\* and either a follower.Chain takes over or the channel turns inactive.
CommitBlock(ch) ==
    /\ ch \in chains \cap AppChannels
    /\ info[ch].status = "active"
    /\ info[ch].relation = "consenter"
    /\ info[ch].height < Len(chain[ch])
    /\ LET k == chain[ch][info[ch].height + 1]
           rel == IF IsConfigKind(k) THEN RelationAfterConfig(k) ELSE info[ch].relation
       IN /\ info' = [info EXCEPT ![ch].height = HeightAfterCommit(@),
                                  ![ch].relation = rel,
                                  ![ch].status = IF rel = "config-tracker" THEN "inactive" ELSE @]
          /\ chains' = IF rel = "follower" THEN chains \ {ch} ELSE chains
          /\ followers' = IF rel = "follower" THEN followers \cup {ch} ELSE followers
    /\ resp' = NoResp
    /\ UNCHANGED <<chain, systemChannelID, sysStarted, inflight, cli, tasks, ledgers>>

\* The running system channel commits its next block: a configuration block,
\* or the creation of an application channel, for which the registrar then
\* creates an entry.  The system channel is active once its ledger is past
\* the join block and while this node is one of its consenters.
CommitSysBlock ==
    /\ systemChannelID = SysChannel
    /\ sysStarted
    /\ info[SysChannel].height < Len(chain[SysChannel])
    /\ LET k == chain[SysChannel][info[SysChannel].height + 1]
           h == HeightAfterCommit(info[SysChannel].height)
           rel == IF IsConfigKind(k) THEN RelationAfterConfig(k)
                  ELSE info[SysChannel].relation
           sys == [info[SysChannel] EXCEPT !.height = h, !.relation = rel,
                       !.status = IF rel # "consenter" THEN "inactive"
                                  ELSE IF h > info[SysChannel].joinNum THEN "active"
                                  ELSE @]
       IN IF k \in AppChannels /\ k \notin Entries
          THEN /\ info' = [info EXCEPT ![SysChannel] = sys, ![k] = CreatedInfo(chain[k][1])]
               /\ chains' = chains \cup {k}
          ELSE /\ info' = [info EXCEPT ![SysChannel] = sys]
               /\ chains' = chains
    /\ resp' = NoResp
    /\ UNCHANGED <<chain, followers, systemChannelID, sysStarted, inflight, cli, tasks, ledgers>>

\* Faulty variant: a follower that pulls a block is onboarding again, whatever
\* its status was.
PullBlockReonboards(ch) ==
    /\ ch \in followers
    /\ info[ch].height < Len(chain[ch])
    /\ LET k == chain[ch][info[ch].height + 1]
           rel == IF IsConfigKind(k) THEN RelationAfterConfig(k) ELSE info[ch].relation
       IN /\ info' = [info EXCEPT ![ch].height = HeightAfterCommit(@), ![ch].relation = rel,
                                  ![ch].status = "onboarding"]
          /\ UNCHANGED <<chains, followers>>
    /\ resp' = NoResp
    /\ UNCHANGED <<chain, systemChannelID, sysStarted, inflight, cli, tasks, ledgers>>

\* Faulty variant: the puller fetches the newest block of the channel and
\* commits it on top of its ledger, whatever lies between.
PullBlockNewest(ch) ==
    /\ ch \in followers
    /\ info[ch].height < Len(chain[ch])
    /\ LET k == chain[ch][Len(chain[ch])]
           rel == IF IsConfigKind(k) THEN RelationAfterConfig(k) ELSE info[ch].relation
           switch == info[ch].status = "active" /\ rel = "consenter"
       IN /\ info' = [info EXCEPT ![ch].height = Len(chain[ch]), ![ch].relation = rel]
          /\ chains' = IF switch THEN chains \cup {ch} ELSE chains
          /\ followers' = IF switch THEN followers \ {ch} ELSE followers
    /\ resp' = NoResp
    /\ UNCHANGED <<chain, systemChannelID, sysStarted, inflight, cli, tasks, ledgers>>

\* Faulty variant: the puller is not tied to the entry of the channel and goes
\* on after the entry is gone.
PullBlockNoEntryCheck(ch) ==
    /\ ch \in AppChannels
    /\ ch \notin chains
    /\ info[ch].height < Len(chain[ch])
    /\ LET k == chain[ch][info[ch].height + 1]
           rel == IF IsConfigKind(k) THEN RelationAfterConfig(k) ELSE info[ch].relation
           switch == info[ch].status = "active" /\ rel = "consenter"
       IN /\ info' = [info EXCEPT ![ch].height = HeightAfterCommit(@), ![ch].relation = rel]
          /\ chains' = IF switch THEN chains \cup {ch} ELSE chains
          /\ followers' = IF switch THEN followers \ {ch} ELSE followers
    /\ resp' = NoResp
    /\ UNCHANGED <<chain, systemChannelID, sysStarted, inflight, cli, tasks, ledgers>>

\* The follower.Chain of a channel pulls the next block from a consenter of
\* the channel and commits it.  An active follower that a configuration block
\* adds to the consenter set hands the channel over to a consensus.Chain.
PullBlock(ch) ==
    /\ ch \in followers
    /\ info[ch].height < Len(chain[ch])
    /\ LET k == chain[ch][info[ch].height + 1]
           rel == IF IsConfigKind(k) THEN RelationAfterConfig(k) ELSE info[ch].relation
           switch == info[ch].status = "active" /\ rel = "consenter"
       IN /\ info' = [info EXCEPT ![ch].height = HeightAfterCommit(@), ![ch].relation = rel]
          /\ chains' = IF switch THEN chains \cup {ch} ELSE chains
          /\ followers' = IF switch THEN followers \ {ch} ELSE followers
    /\ resp' = NoResp
    /\ UNCHANGED <<chain, systemChannelID, sysStarted, inflight, cli, tasks, ledgers>>

\* Faulty variant: a block that fails verification is committed all the same.
PullBadBlockCommits(ch) ==
    /\ ch \in followers
    /\ info[ch].height < Len(chain[ch])
    /\ info' = [info EXCEPT ![ch].height = HeightAfterCommit(@)]
    /\ resp' = NoResp
    /\ UNCHANGED <<chain, chains, followers, systemChannelID, sysStarted, inflight, cli, tasks, ledgers>>

\* The follower.Chain of a channel is served a block that fails verification
\* (previous-hash linkage or signatures): the block is dropped and the attempt
\* is over; the puller asks again, for the same block number.
PullBadBlock(ch) ==
    /\ ch \in followers
    /\ info[ch].height < Len(chain[ch])
    /\ resp' = NoResp
    /\ UNCHANGED <<chain, chains, followers, info, systemChannelID, sysStarted, inflight, cli, tasks, ledgers>>

\* Faulty variant: the end of onboarding of one channel ends the onboarding
\* of every channel of the node.
FinishOnboardingAll(ch) ==
    /\ ch \in followers
    /\ info[ch].status = "onboarding"
    /\ info[ch].height > info[ch].joinNum
    /\ info[ch].height = Len(chain[ch])
    /\ info' = [c \in Channels |->
                  IF c \in followers /\ info[c].status = "onboarding"
                  THEN [info[c] EXCEPT !.status = "active"]
                  ELSE info[c]]
    /\ chains' = IF info[ch].relation = "consenter" THEN chains \cup {ch} ELSE chains
    /\ followers' = IF info[ch].relation = "consenter" THEN followers \ {ch} ELSE followers
    /\ resp' = NoResp
    /\ UNCHANGED <<chain, systemChannelID, sysStarted, inflight, cli, tasks, ledgers>>

\* Faulty variant: onboarding ends as soon as the node holds a block, caught
\* up or not.
FinishOnboardingEarly(ch) ==
    /\ ch \in followers
    /\ info[ch].status = "onboarding"
    /\ info[ch].height > 0
    /\ info' = [info EXCEPT ![ch].status = "active"]
    /\ chains' = IF info[ch].relation = "consenter" THEN chains \cup {ch} ELSE chains
    /\ followers' = IF info[ch].relation = "consenter" THEN followers \ {ch} ELSE followers
    /\ resp' = NoResp
    /\ UNCHANGED <<chain, systemChannelID, sysStarted, inflight, cli, tasks, ledgers>>

\* Onboarding ends when the ledger has caught up with the channel: past the
\* join block, and no block outstanding.
FinishOnboarding(ch) ==
    /\ ch \in followers
    /\ info[ch].status = "onboarding"
    /\ info[ch].height > info[ch].joinNum
    /\ info[ch].height = Len(chain[ch])
    /\ info' = [info EXCEPT ![ch].status = "active"]
    /\ chains' = IF info[ch].relation = "consenter" THEN chains \cup {ch} ELSE chains
    /\ followers' = IF info[ch].relation = "consenter" THEN followers \ {ch} ELSE followers
    /\ resp' = NoResp
    /\ UNCHANGED <<chain, systemChannelID, sysStarted, inflight, cli, tasks, ledgers>>

\* An inactive channel whose latest configuration block holds this node again:
\* the node replicates the channel up to that block and starts its chain.
TrackerRejoin(ch) ==
    /\ ch \in chains \cap AppChannels
    /\ info[ch].relation = "config-tracker"
    /\ systemChannelID # ""
    /\ sysStarted
    /\ LET n == LastConfigIn(chain[ch])
       IN /\ n >= info[ch].height
          /\ chain[ch][n + 1] = ConfigIn
          /\ info' = [info EXCEPT ![ch].height = n + 1,
                                  ![ch].relation = "consenter",
                                  ![ch].status = "active"]
    /\ resp' = NoResp
    /\ UNCHANGED <<chain, chains, followers, systemChannelID, sysStarted, inflight, cli, tasks, ledgers>>

\* Faulty variant: the restart loses the entries whose ledger holds no block.
RestartDropsEmptyLedgers ==
    /\ sysStarted' = (systemChannelID # "")
    /\ info' = [c \in Channels |->
                  IF c \in AppChannels /\ info[c].height = 0 THEN NoInfo ELSE info[c]]
    /\ chains' = {c \in chains : c \notin AppChannels \/ info[c].height > 0}
    /\ followers' = {c \in followers : info[c].height > 0}
    /\ resp' = NoResp
    /\ inflight' = {}
    /\ UNCHANGED <<cli, tasks, ledgers>>
    /\ UNCHANGED <<chain, systemChannelID>>

\* restartOrderer: the process is killed and started again.  The registrar is
\* rebuilt from the ledgers; a system channel that was joined through the API
\* is started.
Restart ==
    /\ sysStarted' = (systemChannelID # "")
    /\ info' = IF systemChannelID # ""
                  /\ info[systemChannelID].status = "inactive"
                  /\ info[systemChannelID].relation = "consenter"
                  /\ info[systemChannelID].height > info[systemChannelID].joinNum
               THEN [info EXCEPT ![systemChannelID].status = "active"]
               ELSE info
    /\ resp' = NoResp
    /\ inflight' = {}
    /\ UNCHANGED <<cli, tasks, ledgers>>
    /\ UNCHANGED <<chain, chains, followers, systemChannelID>>

\* A client that waits for each response: the request is handled as it is
\* received.
Join(ch, blk) == JoinChannel(ch, blk) /\ UNCHANGED <<inflight, cli, tasks, ledgers>>
Remove(ch) == RemoveChannel(ch) /\ UNCHANGED <<inflight, cli, tasks, ledgers>>

Next ==
    \/ \E ch \in AppChannels, k \in {ConfigIn, ConfigOut, TxBlock} : ClusterCommit(ch, k)
    \/ \E k \in {ConfigIn, ConfigOut} : ClusterCommitSys(k)
    \/ \E ch \in AppChannels, g \in {ConfigIn, ConfigOut} : ClusterCreateChannel(ch, g)
    \/ \E ch \in Channels : \E blk \in JoinBlocks(ch) : Join(ch, blk)
    \/ \E ch \in Channels : Remove(ch)
    \/ \E ch \in AppChannels : CommitBlock(ch)
    \/ CommitSysBlock
    \/ \E ch \in AppChannels : PullBlock(ch)
    \/ \E ch \in AppChannels : PullBadBlock(ch)
    \/ \E ch \in AppChannels : FinishOnboarding(ch)
    \/ \E ch \in AppChannels : TrackerRejoin(ch)
    \/ Restart

Spec == Init /\ [][Next]_vars

\* The follower.Chain keeps pulling while a consenter of the channel is
\* reachable and serves blocks that verify, the registrar completes an
\* onboarding that has caught up, and the consensus.Chain of a channel and the
\* started system channel keep committing the blocks their consensus group
\* has committed.
Fairness ==
    /\ \A ch \in AppChannels :
           WF_vars(PullBlock(ch)) /\ WF_vars(FinishOnboarding(ch)) /\ WF_vars(CommitBlock(ch))
    /\ WF_vars(CommitSysBlock)

FairSpec == Spec /\ Fairness

----------------------------------------------------------------------------
\* Concurrent clients: requests are received at any time and the registrar,
\* under its lock, handles them one at a time in any order.

JoinRequest(ch, blk) == [op |-> "join", ch |-> ch, blk |-> blk]
RemoveRequest(ch) == [op |-> "remove", ch |-> ch, blk |-> EmptyBlock]

Submit(req) ==
    /\ Cardinality(inflight) < MaxInflight
    /\ req \notin inflight
    /\ inflight' = inflight \cup {req}
    /\ UNCHANGED <<cli, tasks, ledgers>>
    /\ resp' = NoResp
    /\ UNCHANGED <<chain, chains, followers, info, systemChannelID, sysStarted>>

Handle(req) ==
    /\ req \in inflight
    /\ inflight' = inflight \ {req}
    /\ UNCHANGED <<cli, tasks, ledgers>>
    /\ IF req.op = "join" THEN JoinChannel(req.ch, req.blk) ELSE RemoveChannel(req.ch)

\* A node without channels in a network that holds the system channel, the
\* channel c1 created through it, and the channel c2.
InitConc ==
    /\ chains = {}
    /\ followers = {}
    /\ info = [c \in Channels |-> NoInfo]
    /\ chain = [c \in Channels |->
                  IF c = SysChannel THEN <<ConfigIn, "c1">>
                  ELSE IF c = "c1" THEN <<ConfigIn, ConfigOut, ConfigIn>>
                  ELSE <<ConfigOut, TxBlock>>]
    /\ systemChannelID = ""
    /\ sysStarted = FALSE
    /\ resp = NoResp
    /\ inflight = {}
    /\ cli = NoRun
    /\ tasks = NoTasks
    /\ ledgers = NoLedgers

NextConc ==
    \/ \E ch \in Channels : \E blk \in JoinBlocks(ch) : Submit(JoinRequest(ch, blk))
    \/ \E ch \in Channels : Submit(RemoveRequest(ch))
    \/ \E req \in inflight : Handle(req)
    \/ \E ch \in Channels : Info(ch)
    \/ List
    \/ \E ch \in AppChannels : CommitBlock(ch)
    \/ CommitSysBlock
    \/ \E ch \in AppChannels : PullBlock(ch)
    \/ \E ch \in AppChannels : PullBadBlock(ch)
    \/ \E ch \in AppChannels : FinishOnboarding(ch)
    \/ \E ch \in AppChannels : TrackerRejoin(ch)
    \/ Restart

ConcSpec == InitConc /\ [][NextConc]_vars

----------------------------------------------------------------------------
\* The osnadmin command line (cmd/osnadmin): one run of main

\* The flags and files of a run.  kingpin accepts --configBlock only with
\* "channel join".  keyPair: server.crt and server.key load, or are missing.
\* caFile: ca.crt holds a certificate, is missing, is empty, holds a PEM
\* block of another type, or a CERTIFICATE block that does not parse.
\* configBlock: no path given, a path to a readable file, or to a missing one.
CLIRuns ==
    {r \in [command : {"join", "list", "remove"}, channelID : {"", "c1"},
            keyPair : {"ok", "missing"},
            caFile : {"cert", "missing", "empty", "key", "badcert"},
            configBlock : {"", "ok", "missing"},
            pc : {"parsed"}, out : {""}, code : {-1}, sent : {0}] :
        r.command = "join" \/ r.configBlock = ""}

\* What the operating system reports for a file that is not there.
NoSuchFile == "no such file or directory"

\* decodePEMCertificate: the error, "" for none.
DecodePEMCertificate(ca) ==
    IF ca = "empty" THEN "empty block"
    ELSE IF ca = "key" THEN "expected CERTIFICATE got EC PRIVATE KEY"
    ELSE IF ca = "badcert" THEN "x509: malformed certificate"
    ELSE ""

\* Faulty variant: the configuration block is read before the TLS files.
ConfigFromFlagsBlockFirst(r) ==
    IF r.configBlock = "missing" THEN "reading config block: " \o NoSuchFile
    ELSE IF r.keyPair # "ok" THEN "loading server cert/key pair: " \o NoSuchFile
    ELSE IF r.caFile = "missing" THEN "reading ca.crt: " \o NoSuchFile
    ELSE IF DecodePEMCertificate(r.caFile) # ""
    THEN "decoding ca.crt PEM: " \o DecodePEMCertificate(r.caFile)
    ELSE ""

\* configFromFlags: the error it returns, "" when it returns a Config.
ConfigFromFlags(r) ==
    IF r.keyPair # "ok" THEN "loading server cert/key pair: " \o NoSuchFile
    ELSE IF r.caFile = "missing" THEN "reading ca.crt: " \o NoSuchFile
    ELSE IF DecodePEMCertificate(r.caFile) # ""
    THEN "decoding ca.crt PEM: " \o DecodePEMCertificate(r.caFile)
    ELSE IF r.configBlock # "" /\ r.configBlock = "missing"
    THEN "reading config block: " \o NoSuchFile
    ELSE ""

\* printErrorAndExit
PrintErrorAndExit(err) ==
    cli' = [cli EXCEPT !.out = "Error: " \o err, !.code = 1, !.pc = "exited"]

\* main, up to the switch: the flags are parsed, the configuration is loaded.
CLIConfig ==
    /\ cli.pc = "parsed"
    /\ IF ConfigFromFlags(cli) # ""
       THEN PrintErrorAndExit(ConfigFromFlags(cli))
       ELSE cli' = [cli EXCEPT !.pc = "configured"]
    /\ UNCHANGED <<chain, chains, followers, info, systemChannelID, sysStarted, resp, inflight, tasks, ledgers>>

\* main, the switch: the request of the command is sent; the orderer answers,
\* or the connection fails.
CLIRequest(answered) ==
    /\ cli.pc = "configured"
    /\ IF answered
       THEN cli' = [cli EXCEPT !.sent = @ + 1, !.pc = "responded"]
       ELSE cli' = [cli EXCEPT !.sent = @ + 1, !.out = "Error: connection refused",
                               !.code = 1, !.pc = "exited"]
    /\ UNCHANGED <<chain, chains, followers, info, systemChannelID, sysStarted, resp, inflight, tasks, ledgers>>

\* printResponse, and the end of main: the body of the response is read and
\* printed after the status, or reading it fails.
CLIPrintResponse(readable) ==
    /\ cli.pc = "responded"
    /\ IF readable
       THEN cli' = [cli EXCEPT !.out = "Status: ", !.code = 0, !.pc = "exited"]
       ELSE PrintErrorAndExit("reading http response body: unexpected EOF")
    /\ UNCHANGED <<chain, chains, followers, info, systemChannelID, sysStarted, resp, inflight, tasks, ledgers>>

InitCLI ==
    /\ chains = {}
    /\ followers = {}
    /\ info = [c \in Channels |-> NoInfo]
    /\ chain = [c \in Channels |-> <<>>]
    /\ systemChannelID = ""
    /\ sysStarted = FALSE
    /\ resp = NoResp
    /\ inflight = {}
    /\ cli \in CLIRuns
    /\ tasks = NoTasks
    /\ ledgers = NoLedgers

NextCLI ==
    \/ CLIConfig
    \/ \E answered \in BOOLEAN : CLIRequest(answered)
    \/ \E readable \in BOOLEAN : CLIPrintResponse(readable)

CLISpec == InitCLI /\ [][NextCLI]_vars

----------------------------------------------------------------------------
\* The participation command line (cmd/participation): one run of main
\*
\* An earlier command line for the same requests.  Each sub-command has its
\* own flag set; the request is sent only when enough flags were given.

\* The arguments and files of a run.  nflag: how many flags of the
\* sub-command were set.  configBlock: the path names a readable file, or a
\* missing one.
ParticipationRuns ==
    {r \in [command : {"list", "remove", "join", "other"}, nflag : 0 .. 4,
            channelID : {"", "c1"}, configBlock : {"ok", "missing"},
            pc : {"start"}, out : {""}, code : {-1}, sent : {0}, respNil : {TRUE}] :
        /\ r.command \in {"list", "remove"} => r.nflag <= 3
        /\ r.command = "other" => r.nflag = 0}

\* The switch of main: whether the request function of the sub-command is
\* called.
EnoughFlags(r) ==
    \/ r.command = "list" /\ r.nflag >= 2
    \/ r.command = "remove" /\ r.nflag >= 3
    \/ r.command = "join" /\ r.nflag >= 3

\* participation.Join reads the configuration block before it builds the
\* request: the error it returns without sending, "" for none.
RequestError(r) ==
    IF r.command = "join" /\ r.configBlock = "missing"
    THEN "open config.block: " \o NoSuchFile
    ELSE ""

\* main, from the switch to the call of printResponse: the request function
\* is called when enough flags were given; it returns a response, or nil and
\* an error; an error is printed, and main goes on to printResponse.
ParticipationRequest(answered) ==
    /\ cli.pc = "start"
    /\ IF ~ EnoughFlags(cli)
       THEN cli' = [cli EXCEPT !.pc = "printResponse"]
       ELSE IF RequestError(cli) # ""
       THEN cli' = [cli EXCEPT !.out = "Error: " \o RequestError(cli), !.pc = "printResponse"]
       ELSE IF answered
       THEN cli' = [cli EXCEPT !.sent = @ + 1, !.respNil = FALSE, !.pc = "printResponse"]
       ELSE cli' = [cli EXCEPT !.sent = @ + 1, !.out = "Error: connection refused",
                               !.pc = "printResponse"]
    /\ UNCHANGED <<chain, chains, followers, info, systemChannelID, sysStarted, resp, inflight, tasks, ledgers>>

\* printResponse: resp.Body is read; with a nil response the read of the
\* field panics; a body that cannot be read ends the run through log.Fatalf.
ParticipationPrintResponse(readable) ==
    /\ cli.pc = "printResponse"
    /\ IF cli.respNil
       THEN cli' = [cli EXCEPT !.code = 2, !.pc = "panicked"]
       ELSE IF readable
       THEN cli' = [cli EXCEPT !.out = "Status: ", !.code = 0, !.pc = "exited"]
       ELSE cli' = [cli EXCEPT !.out = "failed to read http response body", !.code = 1,
                               !.pc = "exited"]
    /\ UNCHANGED <<chain, chains, followers, info, systemChannelID, sysStarted, resp, inflight, tasks, ledgers>>

InitParticipation ==
    /\ chains = {}
    /\ followers = {}
    /\ info = [c \in Channels |-> NoInfo]
    /\ chain = [c \in Channels |-> <<>>]
    /\ systemChannelID = ""
    /\ sysStarted = FALSE
    /\ resp = NoResp
    /\ inflight = {}
    /\ cli \in ParticipationRuns
    /\ tasks = NoTasks
    /\ ledgers = NoLedgers

NextParticipation ==
    \/ \E answered \in BOOLEAN : ParticipationRequest(answered)
    \/ \E readable \in BOOLEAN : ParticipationPrintResponse(readable)

ParticipationSpec == InitParticipation /\ [][NextParticipation]_vars

----------------------------------------------------------------------------

\* The per-channel tasks: a block fetched by a task and handed over later
\*
\* Each entry of an application channel runs one task (the follower.Chain with
\* its block puller, or the consensus.Chain with its commit notifications).
\* A task first obtains the next block and hands it over for commit in a later
\* step; a remove cancels the task of the entry, and what a cancelled task
\* still hands over is dropped.

\* A join as JoinChannel; the entry it creates runs a new task.
TaskJoin(ch, blk) ==
    /\ ch \in AppChannels
    /\ tasks.gen[ch] < MaxTasks
    /\ JoinChannel(ch, blk)
    /\ tasks' = IF JoinError(ch, blk) = "none"
                THEN [tasks EXCEPT !.gen[ch] = @ + 1]
                ELSE tasks
    /\ UNCHANGED <<inflight, cli, ledgers>>

\* A remove as RemoveChannel; a block the cancelled task has fetched is still
\* on its way.
TaskRemove(ch) ==
    /\ ch \in AppChannels
    /\ RemoveChannel(ch)
    /\ UNCHANGED <<inflight, cli, tasks, ledgers>>

\* The task of ch obtains the next block of the channel.
FetchBlock(ch) ==
    /\ ch \in Entries \cap AppChannels
    /\ \/ ch \in followers
       \/ ch \in chains /\ info[ch].status = "active" /\ info[ch].relation = "consenter"
    /\ info[ch].height < Len(chain[ch])
    /\ Cardinality(tasks.fetched) < MaxFetched
    /\ tasks' = [tasks EXCEPT
                   !.fetched = @ \cup {[ch |-> ch, num |-> info[ch].height, gen |-> tasks.gen[ch]]},
                   !.last = "fetched"]
    /\ resp' = NoResp
    /\ UNCHANGED <<chain, chains, followers, info, systemChannelID, sysStarted, inflight, cli, ledgers>>

\* Faulty variant: a fetched block is taken for current when the channel has
\* an entry and the block is the next of its ledger, whatever task fetched it.
IsCurrentAnyTask(f) ==
    /\ f.ch \in Entries
    /\ f.num = info[f.ch].height
    /\ \/ f.ch \in followers
       \/ f.ch \in chains /\ info[f.ch].status = "active" /\ info[f.ch].relation = "consenter"

\* The fetched block f comes from the task that the entry of its channel runs
\* now, and it is the next block of the node's ledger.
IsCurrent(f) ==
    /\ f.ch \in Entries
    /\ f.gen = tasks.gen[f.ch]
    /\ f.num = info[f.ch].height
    /\ \/ f.ch \in followers
       \/ f.ch \in chains /\ info[f.ch].status = "active" /\ info[f.ch].relation = "consenter"

\* A task hands over the block f it has fetched: the block is committed as
\* PullBlock or CommitBlock commit it, or dropped when it is not current.
HandOver(f) ==
    /\ f \in tasks.fetched
    /\ IF IsCurrent(f)
       THEN LET ch == f.ch
                k == chain[ch][f.num + 1]
                rel == IF IsConfigKind(k) THEN RelationAfterConfig(k) ELSE info[ch].relation
                toChain == ch \in followers /\ info[ch].status = "active" /\ rel = "consenter"
                toFollower == ch \in chains /\ rel = "follower"
            IN /\ info' = [info EXCEPT ![ch].height = HeightAfterCommit(@),
                                       ![ch].relation = rel,
                                       ![ch].status = IF rel = "config-tracker"
                                                      THEN "inactive" ELSE @]
               /\ chains' = IF toChain THEN chains \cup {ch}
                            ELSE IF toFollower THEN chains \ {ch} ELSE chains
               /\ followers' = IF toChain THEN followers \ {ch}
                               ELSE IF toFollower THEN followers \cup {ch} ELSE followers
               /\ tasks' = [tasks EXCEPT !.fetched = @ \ {f}, !.last = "committed"]
       ELSE /\ tasks' = [tasks EXCEPT !.fetched = @ \ {f}, !.last = "dropped"]
            /\ UNCHANGED <<chains, followers, info>>
    /\ resp' = NoResp
    /\ UNCHANGED <<chain, systemChannelID, sysStarted, inflight, cli, ledgers>>

\* The channel whose tasks are followed.
TaskChannels == {"c1"}

NextTask ==
    \/ \E ch \in TaskChannels : \E k \in {ConfigIn, ConfigOut, TxBlock} : ClusterCommit(ch, k)
    \/ \E ch \in TaskChannels : \E blk \in JoinBlocks(ch) : TaskJoin(ch, blk)
    \/ \E ch \in TaskChannels : TaskRemove(ch)
    \/ \E ch \in TaskChannels : FetchBlock(ch)
    \/ \E f \in tasks.fetched : HandOver(f)
    \/ \E ch \in TaskChannels : FinishOnboarding(ch)

TaskSpec == InitNone /\ [][NextTask]_vars

----------------------------------------------------------------------------

\* The ledgers of two orderers of one channel
\*
\* Each orderer that holds a channel keeps its own ledger of the channel.  A
\* consenter appends the blocks its consensus group commits, a follower the
\* blocks its puller fetches from another orderer that holds the channel.

\* The channel whose ledgers are compared.
PeerChannels == {"c1"}

HeightOf(o, ch) == Len(ledgers[o][ch].blocks)

\* Orderer o joins ch with block n of the channel: the genesis block starts
\* the ledger, a later block leaves it empty for the puller to fill.
OrdererJoin(o, ch, n) ==
    /\ ~ ledgers[o][ch].held
    /\ n \in 0 .. Len(chain[ch]) - 1
    /\ IsConfigKind(chain[ch][n + 1])
    /\ ledgers' = [ledgers EXCEPT ![o][ch] =
                      [held |-> TRUE,
                       blocks |-> IF n = 0 THEN <<BlockOf(ch, 0)>> ELSE <<>>]]
    /\ resp' = NoResp
    /\ UNCHANGED <<chain, chains, followers, info, systemChannelID, sysStarted, inflight, cli, tasks>>

\* Orderer o, taking part in the consensus group of ch, commits the next
\* block the group has committed.
OrdererCommit(o, ch) ==
    /\ ledgers[o][ch].held
    /\ HeightOf(o, ch) < Len(chain[ch])
    /\ ledgers' = [ledgers EXCEPT ![o][ch].blocks = Append(@, BlockOf(ch, HeightOf(o, ch)))]
    /\ resp' = NoResp
    /\ UNCHANGED <<chain, chains, followers, info, systemChannelID, sysStarted, inflight, cli, tasks>>

\* Faulty variant: the puller takes the newest block of the other orderer and
\* appends it without looking whether it extends its own ledger.
OrdererPullNewest(o, p, ch) ==
    /\ o # p
    /\ ledgers[o][ch].held /\ ledgers[p][ch].held
    /\ HeightOf(o, ch) < HeightOf(p, ch)
    /\ ledgers' = [ledgers EXCEPT ![o][ch].blocks =
                      Append(@, ledgers[p][ch].blocks[HeightOf(p, ch)])]
    /\ resp' = NoResp
    /\ UNCHANGED <<chain, chains, followers, info, systemChannelID, sysStarted, inflight, cli, tasks>>

\* The puller of orderer o fetches from orderer p the block that follows its
\* own ledger and appends it.
OrdererPull(o, p, ch) ==
    /\ o # p
    /\ ledgers[o][ch].held /\ ledgers[p][ch].held
    /\ HeightOf(o, ch) < HeightOf(p, ch)
    /\ ledgers' = [ledgers EXCEPT ![o][ch].blocks =
                      Append(@, ledgers[p][ch].blocks[HeightOf(o, ch) + 1])]
    /\ resp' = NoResp
    /\ UNCHANGED <<chain, chains, followers, info, systemChannelID, sysStarted, inflight, cli, tasks>>

\* Orderer o is removed from ch: its ledger of the channel is deleted.
OrdererRemove(o, ch) ==
    /\ ledgers[o][ch].held
    /\ ledgers' = [ledgers EXCEPT ![o][ch] = [held |-> FALSE, blocks |-> <<>>]]
    /\ resp' = NoResp
    /\ UNCHANGED <<chain, chains, followers, info, systemChannelID, sysStarted, inflight, cli, tasks>>

NextPeer ==
    \/ \E ch \in PeerChannels : \E k \in {ConfigIn, ConfigOut, TxBlock} : ClusterCommit(ch, k)
    \/ \E o \in Orderers : \E ch \in PeerChannels : \E n \in 0 .. MaxHeight - 1 : OrdererJoin(o, ch, n)
    \/ \E o \in Orderers : \E ch \in PeerChannels : OrdererCommit(o, ch)
    \/ \E o, p \in Orderers : \E ch \in PeerChannels : OrdererPull(o, p, ch)
    \/ \E o \in Orderers : \E ch \in PeerChannels : OrdererRemove(o, ch)

PeerSpec == InitNone /\ [][NextPeer]_vars

----------------------------------------------------------------------------

\* Properties

\* The registrar's entries, without the response of the last request.
registry == <<chains, followers, info, systemChannelID, sysStarted>>

\* The last step handled a join / remove request for ch (rejected or not).
JoinStep(ch) ==
    /\ resp'.op = "join"
    /\ resp'.ch = ch
    /\ \E blk \in JoinBlocks(ch) : JoinChannel(ch, blk)

RemoveStep(ch) ==
    /\ resp'.op = "remove"
    /\ resp'.ch = ch
    /\ RemoveChannel(ch)

\* The last step handled a join request for ch that carried blk.
JoinStepWith(ch, blk) ==
    /\ resp'.op = "join"
    /\ resp'.ch = ch
    /\ JoinChannel(ch, blk)

\* The entry of ch was created by a join with the channel's genesis block,
\* whose consenter set holds this node.
JoinedAtGenesisAsConsenter(ch) ==
    /\ ch \in Entries
    /\ info[ch].joinNum = 0
    /\ chain[ch][1] = ConfigIn

Accepted(op, ch) == resp.op = op /\ resp.ch = ch /\ resp.err = "none"

\* C1 as stated: every entry created by an accepted join with block number 0
\* is active with height at least 1, and the join response reports active, 1.
C1_AsStated ==
    \A ch \in Channels :
        (ch \in Entries /\ info[ch].joinNum = 0) =>
            /\ info[ch].status = "active"
            /\ info[ch].height >= 1
            /\ Accepted("join", ch) => (resp.status = "active" /\ resp.height = 1)

\* C1 amended: an accepted join of an application channel with the genesis
\* block, on a node in that block's consenter set, answers {active, height 1}
\* and creates the entry so; the entry is active in every later state and is
\* never onboarding.
C1_GenesisJoinActive ==
    \A ch \in AppChannels :
        JoinedAtGenesisAsConsenter(ch) =>
            /\ info[ch].status = "active"
            /\ info[ch].height >= 1
            /\ Accepted("join", ch) =>
                   /\ resp.status = "active" /\ resp.height = 1 /\ resp.code = 201
                   /\ ChannelInfo(ch) = [status |-> "active", relation |-> "consenter", height |-> 1]

C1_Witness ==
    \E ch \in AppChannels :
        /\ JoinedAtGenesisAsConsenter(ch)
        /\ Accepted("join", ch)
        /\ resp.status = "active"

\* C2 as stated, its first half: every entry created by an accepted join with
\* a configuration block of number > 0 starts onboarding at height 0.
C2_AsStated ==
    \A ch \in Channels :
        (Accepted("join", ch) /\ info[ch].joinNum > 0) =>
            /\ resp.status = "onboarding" /\ resp.height = 0
            /\ info[ch].status = "onboarding" /\ info[ch].height = 0

\* C2 amended: an accepted join of an application channel with a configuration
\* block of number > 0 answers {onboarding, height 0}; onboarding ends only
\* with the node's height equal to the height of the channel; and, the
\* follower chain pulling, the entry becomes active unless it is removed.
C2_JoinBlockOnboards ==
    /\ [](\A ch \in AppChannels :
            (Accepted("join", ch) /\ info[ch].joinNum > 0) =>
                /\ resp.status = "onboarding" /\ resp.height = 0 /\ resp.code = 201
                /\ info[ch].status = "onboarding" /\ info[ch].height = 0)
    /\ [][\A ch \in AppChannels :
            (info[ch].status = "onboarding" /\ info'[ch].status = "active") =>
                /\ info'[ch].height = Len(chain'[ch])
                /\ info'[ch].height > info[ch].joinNum]_vars
    /\ \A ch \in AppChannels :
            (info[ch].status = "onboarding") ~> (info[ch].status = "active" \/ ch \notin Entries)

C2_Witness ==
    \E ch \in AppChannels :
        /\ info[ch].joinNum > 0
        /\ info[ch].status = "active"
        /\ info[ch].height = Len(chain[ch])

\* C3 as stated: a join request for an ID that has an entry fails with
\* ChannelAlreadyExists (405) whatever the block, and changes no entry.
C3_AsStated ==
    [][\A ch \in Channels :
        (ch \in Entries /\ JoinStep(ch)) =>
            /\ resp'.err = "ChannelAlreadyExists"
            /\ resp'.code = 405
            /\ UNCHANGED registry]_vars

\* C3 amended: a join request for an ID that has an entry is always rejected
\* and changes no entry; the error is ChannelAlreadyExists (405) when the block
\* is a configuration block and the node holds no system channel,
\* SystemChannelExists when it holds one, InvalidJoinBlock for another block.
C3_JoinExistingRejected ==
    [][\A ch \in Channels : \A blk \in JoinBlocks(ch) :
        (ch \in Entries /\ JoinStepWith(ch, blk)) =>
            /\ UNCHANGED registry
            /\ resp'.err = IF ~IsConfigBlock(blk) THEN "InvalidJoinBlock"
                           ELSE IF systemChannelID # "" THEN "SystemChannelExists"
                           ELSE "ChannelAlreadyExists"
            /\ resp'.code = IF IsConfigBlock(blk) THEN 405 ELSE 400]_vars

C3_Witness ==
    /\ resp.op = "join"
    /\ resp.err = "ChannelAlreadyExists"
    /\ resp.ch \in Entries
    /\ info[resp.ch].status = "onboarding"

\* C4 as stated: while the node holds a system channel, every join or remove
\* request for another channel is rejected with SystemChannelExists or
\* ApplicationChannelsExist.
C4_AsStated ==
    [][\A ch \in Channels :
        (systemChannelID # "" /\ ch # systemChannelID /\ (JoinStep(ch) \/ RemoveStep(ch))) =>
            resp'.err \in {"SystemChannelExists", "ApplicationChannelsExist"}]_vars

\* C4 amended: while the node holds a system channel, every remove request and
\* every join request with a configuration block for another channel is
\* rejected with SystemChannelExists (a join with another block with
\* InvalidJoinBlock) and changes nothing; when the node holds no system
\* channel, a join of an application channel without entry with one of its
\* configuration blocks, and a remove of a channel with an entry, succeed.
C4_SystemChannelExclusive ==
    [][\A ch \in Channels :
        /\ \A blk \in JoinBlocks(ch) :
             ((systemChannelID # "" /\ ch # systemChannelID /\ JoinStepWith(ch, blk)) =>
                 /\ UNCHANGED registry
                 /\ resp'.err = IF IsConfigBlock(blk) THEN "SystemChannelExists"
                                ELSE "InvalidJoinBlock")
        /\ (systemChannelID # "" /\ ch # systemChannelID /\ RemoveStep(ch)) =>
               (resp'.err = "SystemChannelExists" /\ UNCHANGED registry)
        /\ \A blk \in JoinBlocks(ch) :
             ((systemChannelID = "" /\ ch \in AppChannels \ Entries /\ IsConfigBlock(blk)
                   /\ JoinStepWith(ch, blk)) =>
                 (resp'.err = "none" /\ ch \in Entries'))
        /\ (systemChannelID = "" /\ ch \in Entries /\ RemoveStep(ch)) =>
               (resp'.err = "none" /\ ch \notin Entries')]_vars

\* An application channel created through the system channel is still held,
\* the system channel is not, and a join of another channel was accepted.
C4_Witness ==
    /\ systemChannelID = ""
    /\ \E c \in AppChannels :
         /\ c \in Entries /\ info[c].joinNum = -1
         /\ c # resp.ch
    /\ resp.op = "join" /\ resp.err = "none"

\* C5 as stated: while the node holds a system channel, a remove request for
\* any channel, the system channel included, is rejected with
\* SystemChannelExists (405) and removes nothing.
C5_AsStated ==
    [][\A ch \in Channels :
        (systemChannelID # "" /\ RemoveStep(ch)) =>
            /\ resp'.err = "SystemChannelExists"
            /\ resp'.code = 405
            /\ UNCHANGED registry]_vars

\* C5 amended: while the node holds a system channel, a remove request for any
\* channel other than the system channel is rejected with SystemChannelExists
\* (405) and removes nothing; a remove of the system channel itself is
\* accepted (204) and removes only the system channel's entry.
C5_RemoveUnderSystemChannel ==
    [][\A ch \in Channels :
        (systemChannelID # "" /\ RemoveStep(ch)) =>
            IF ch # systemChannelID
            THEN /\ resp'.err = "SystemChannelExists"
                 /\ resp'.code = 405
                 /\ UNCHANGED registry
            ELSE /\ resp'.err = "none"
                 /\ resp'.code = 204
                 /\ Entries' = Entries \ {ch}
                 /\ systemChannelID' = ""
                 /\ \A c \in Entries' : info'[c] = info[c]]_vars

C5_Witness ==
    /\ resp.op = "remove"
    /\ resp.err = "SystemChannelExists"
    /\ resp.code = 405
    /\ resp.ch \in Entries
    /\ systemChannelID \in Entries

Commits(ch, k) ==
    /\ ch \in Entries /\ ch \in Entries'
    /\ info'[ch].height = info[ch].height + 1
    /\ chain[ch][info[ch].height + 1] = k

\* C8: committing a configuration block without this node turns a consenter
\* into a follower or a config-tracker, and the relation of an entry becomes
\* consenter again only by committing a later configuration block that holds
\* the node.
C8_EvictedUntilReadded ==
    [][\A ch \in Channels :
        /\ (info[ch].relation = "consenter" /\ Commits(ch, ConfigOut)) =>
               info'[ch].relation \in {"follower", "config-tracker"}
        /\ (ch \in Entries /\ ch \in Entries'
              /\ info[ch].relation \in {"follower", "config-tracker"}
              /\ info'[ch].relation = "consenter") =>
               /\ info'[ch].height > info[ch].height
               /\ LastConfigBlockNumber(ch)' >= info[ch].height
               /\ chain[ch][LastConfigBlockNumber(ch)' + 1] = ConfigIn]_vars

\* The node was a consenter from the genesis block on and the configuration
\* block 1 removed it.
C8_Witness ==
    \E ch \in AppChannels :
        /\ ch \in Entries
        /\ info[ch].joinNum \in {-1, 0}
        /\ chain[ch][1] = ConfigIn
        /\ info[ch].height = 2
        /\ chain[ch][2] = ConfigOut
        /\ info[ch].relation \in {"follower", "config-tracker"}

\* The configuration block the relation of an entry is computed from: the
\* latest one in the ledger, and the join block while the ledger is empty.
AppliedConfigBlock(ch) ==
    IF info[ch].height = 0 THEN info[ch].joinNum ELSE LastConfigBlockNumber(ch)

\* C9: for every entry, relation consenter implies that the consenter set of
\* the latest applied configuration block holds the node, follower and
\* config-tracker imply that it does not.
C9_RelationMatchesConsenterSet ==
    \A ch \in Entries :
        LET k == chain[ch][AppliedConfigBlock(ch) + 1] IN
        /\ info[ch].relation \in {"consenter", "follower", "config-tracker"}
        /\ info[ch].relation = "consenter" => k = ConfigIn
        /\ info[ch].relation \in {"follower", "config-tracker"} => k = ConfigOut

\* C9 for the entries of application channels only, where it holds.
C9_ApplicationChannelEntries ==
    \A ch \in Entries \cap AppChannels :
        LET k == chain[ch][AppliedConfigBlock(ch) + 1] IN
        /\ info[ch].relation = "consenter" => k = ConfigIn
        /\ info[ch].relation \in {"follower", "config-tracker"} => k = ConfigOut

\* C10: the registrar holds at most one entry per channel ID, a
\* consensus.Chain or a follower.Chain, also while several join requests, or
\* a join and a remove request, for the same ID are in flight.
C10_OneEntryPerChannel ==
    \A ch \in Channels :
        /\ Cardinality({c \in {"chain", "follower"} :
               \/ c = "chain" /\ ch \in chains
               \/ c = "follower" /\ ch \in followers}) <= 1
        /\ ch \notin Entries => info[ch] = NoInfo

\* A join was accepted while another join for the same ID is in flight.
C10_Witness ==
    /\ Accepted("join", resp.ch)
    /\ resp.ch \in Entries
    /\ \E r \in inflight : r.op = "join" /\ r.ch = resp.ch

\* C11: the node holds at most one system channel entry, the one the
\* registrar's systemChannelID names, and while it holds one, every entry of an
\* application channel was created through the system channel, none by a join
\* through the channel participation API.
C11_SystemChannelOnlyLegacy ==
    /\ Cardinality({ch \in Entries : ch = systemChannelID \/ ch = SysChannel}) <= 1
    /\ systemChannelID # "" =>
           /\ systemChannelID \in Entries
           /\ \A ch \in Entries \cap AppChannels : info[ch].joinNum = -1

\* The node holds the system channel and an application channel.
C11_Witness ==
    /\ systemChannelID = SysChannel
    /\ SysChannel \in Entries
    /\ \E ch \in Entries \cap AppChannels : info[ch].joinNum = -1

\* C12 as stated: a remove request for a channel ID without entry fails with
\* ChannelNotExist (404) and changes no entry.
C12_AsStated ==
    [][\A ch \in Channels :
        (ch \notin Entries /\ RemoveStep(ch)) =>
            /\ resp'.err = "ChannelNotExist"
            /\ resp'.code = 404
            /\ UNCHANGED registry]_vars

\* C12 amended: a remove request for a channel ID without entry changes no
\* entry and fails with ChannelNotExist (404) on a node that holds no system
\* channel, with SystemChannelExists (405) on a node that holds one.
C12_RemoveAbsentRejected ==
    [][\A ch \in Channels :
        (ch \notin Entries /\ RemoveStep(ch)) =>
            /\ UNCHANGED registry
            /\ resp'.err = IF systemChannelID = "" THEN "ChannelNotExist"
                           ELSE "SystemChannelExists"
            /\ resp'.code = IF systemChannelID = "" THEN 404 ELSE 405]_vars

\* A remove of a channel without entry was answered 404 by a node that holds
\* another channel.
C12_Witness ==
    /\ resp.op = "remove"
    /\ resp.err = "ChannelNotExist"
    /\ resp.code = 404
    /\ resp.ch \notin Entries
    /\ Entries # {}

\* C13: a join whose block is not a configuration block (a transaction block
\* or an empty block) is rejected with InvalidJoinBlock (400) and creates
\* nothing: the registrar's entries are as before.
C13_InvalidJoinBlockRejected ==
    [][\A ch \in Channels : \A blk \in JoinBlocks(ch) :
        (blk.kind \notin {ConfigIn, ConfigOut} /\ JoinStepWith(ch, blk)) =>
            /\ resp'.err = "InvalidJoinBlock"
            /\ resp'.code = 400
            /\ UNCHANGED registry
            /\ ch \notin Entries => ch \notin Entries']_vars

\* A join of a channel without entry, on a node without system channel, was
\* answered 400.
C13_Witness ==
    /\ resp.op = "join"
    /\ resp.err = "InvalidJoinBlock"
    /\ resp.code = 400
    /\ resp.ch \notin Entries
    /\ systemChannelID = ""
    /\ chain[resp.ch] # <<>>

\* C14: an accepted remove leaves no entry of the channel (it is in neither
\* map, so it is not listed and nothing commits or pulls on it) and no ledger;
\* while the channel has no entry nothing of it is kept, and an accepted join
\* of the ID afterwards yields exactly what the join block alone gives a new
\* channel.
C14_RemovedIsNotPresent ==
    [][\A ch \in Channels :
          /\ (RemoveStep(ch) /\ resp'.err = "none") =>
                 /\ ch \in Entries
                 /\ ch \notin Entries'
                 /\ info'[ch] = NoInfo
                 /\ ch \notin chains' /\ ch \notin followers'
          /\ (ch \notin Entries /\ ch \notin Entries') => info'[ch] = NoInfo
          /\ \A blk \in JoinBlocks(ch) :
                 (ch \notin Entries /\ info[ch] = NoInfo
                  /\ JoinStepWith(ch, blk) /\ resp'.err = "none") =>
                     /\ info'[ch] = JoinInfo(blk)
                     /\ ch \in Entries']_vars

\* An application channel with a ledger was removed while another stays listed.
C14_Witness ==
    /\ Accepted("remove", resp.ch)
    /\ resp.ch \in AppChannels
    /\ resp.ch \notin Entries
    /\ info[resp.ch] = NoInfo
    /\ Entries \cap AppChannels # {}

\* C15: a remove request for a channel that is onboarding can always be
\* handled, whatever the block puller has fetched so far, and is accepted: the
\* follower.Chain with its puller is gone, the partial ledger is discarded and
\* the entry is deleted.
C15_RemoveWhileOnboarding ==
    [][\A ch \in AppChannels :
          info[ch].status = "onboarding" =>
              /\ RemoveRequest(ch) \in inflight => ENABLED Handle(RemoveRequest(ch))
              /\ RemoveStep(ch) =>
                     /\ resp'.err = "none"
                     /\ resp'.code = HTTPStatus("remove", "none")
                     /\ ch \notin followers'
                     /\ ch \notin chains'
                     /\ info'[ch] = NoInfo]_vars

\* A remove request is in flight for a channel that is onboarding with a
\* partial ledger and blocks still to pull.
C15_Witness ==
    \E ch \in AppChannels :
        /\ RemoveRequest(ch) \in inflight
        /\ ch \in followers
        /\ info[ch].status = "onboarding"
        /\ info[ch].height > 0
        /\ info[ch].height < Len(chain[ch])

\* A transition of the entry of ch that the node itself can take.
TransitionEnabled(ch) ==
    \/ ENABLED CommitBlock(ch)
    \/ ENABLED PullBlock(ch)
    \/ ENABLED FinishOnboarding(ch)
    \/ ENABLED TrackerRejoin(ch)

InfoStep(ch) == resp'.op = "info" /\ resp'.ch = ch /\ Info(ch)
ListStep == resp'.op = "list" /\ List

FollowerAddedAt(ch, n) ==
    /\ ch \in followers
    /\ info[ch].relation = "follower"
    /\ n \in (info[ch].height + 1)..Len(chain[ch])
    /\ chain[ch][n] = ConfigIn
    /\ \A m \in (info[ch].height + 1)..(n - 1) : chain[ch][m] # ConfigIn

\* The node is an active consenter of ch and its ledger holds the n-th block.
ConsenterAt(ch, n) ==
    /\ ch \in chains
    /\ info[ch].relation = "consenter"
    /\ info[ch].status = "active"
    /\ info[ch].height >= n

\* The node has committed a configuration block after the n-th that takes it
\* out of the consenter set again.
EvictedAfter(ch, n) ==
    \E m \in (n + 1)..info[ch].height : chain[ch][m] = ConfigOut

\* C18 as stated: a follower that a configuration block of the channel adds to
\* the consenter set eventually is an active consenter with that block in its
\* ledger.
C18_AsStated ==
    \A ch \in AppChannels : \A n \in 1..MaxBlocks :
        FollowerAddedAt(ch, n) ~> ConsenterAt(ch, n)

\* C18 amended: a follower that commits a configuration block adding it to the
\* consenter set has relation consenter from that commit on, at once as an
\* active consenter run by a consensus.Chain if it was active; and, the
\* follower chain pulling, a follower that such a block awaits eventually is
\* an active consenter with the block in its ledger, unless the channel is
\* removed from the node or the node commits a later configuration block that
\* takes it out of the consenter set again.
C18_FollowerBecomesConsenter ==
    /\ [][\A ch \in AppChannels :
            (/\ ch \in followers
             /\ info[ch].relation = "follower"
             /\ ch \in Entries'
             /\ info'[ch].height = info[ch].height + 1
             /\ chain[ch][info'[ch].height] = ConfigIn) =>
                /\ info'[ch].relation = "consenter"
                /\ info[ch].status = "active" =>
                       /\ ch \in chains' /\ ch \notin followers'
                       /\ info'[ch].status = "active"]_vars
    /\ \A ch \in AppChannels : \A n \in 1..MaxBlocks :
            FollowerAddedAt(ch, n) ~>
                (ConsenterAt(ch, n) \/ ch \notin Entries \/ EvictedAfter(ch, n))

\* An active follower (joined with a block that does not hold it) has become
\* an active consenter by the configuration block that is the last of its
\* ledger.
C18_Witness ==
    \E ch \in AppChannels :
        /\ ch \in chains
        /\ info[ch].joinNum >= 0
        /\ chain[ch][info[ch].joinNum + 1] = ConfigOut
        /\ info[ch].height > info[ch].joinNum + 1
        /\ chain[ch][info[ch].height] = ConfigIn
        /\ info[ch].relation = "consenter"
        /\ info[ch].status = "active"

\* C19: an accepted remove of the system channel keeps every application
\* channel entry of the node, all of them created through the system channel:
\* each stays in its map with the same height, relation and status, so none
\* loses a block and an active consenter still runs its consensus.Chain; and
\* on a node without system channel an active consenter of a channel created
\* that way commits whenever the channel has a block for it.
C19_LegacyChannelsSurvive ==
    [][/\ (systemChannelID = SysChannel /\ RemoveStep(SysChannel) /\ resp'.err = "none") =>
              /\ systemChannelID' = ""
              /\ Entries' = Entries \ {SysChannel}
              /\ \A ch \in Entries \cap AppChannels :
                     /\ info[ch].joinNum = -1
                     /\ info'[ch] = info[ch]
                     /\ Ledger(ch)' = Ledger(ch)
                     /\ ch \in chains <=> ch \in chains'
                     /\ ch \in followers <=> ch \in followers'
       /\ \A ch \in chains \cap AppChannels :
              (/\ systemChannelID = ""
               /\ info[ch].joinNum = -1
               /\ info[ch].status = "active"
               /\ info[ch].relation = "consenter"
               /\ info[ch].height < Len(chain[ch])) => ENABLED CommitBlock(ch)]_vars

\* The system channel was removed from a node that keeps, as active consenter,
\* a channel created through it with blocks committed after its genesis block.
C19_Witness ==
    /\ Accepted("remove", SysChannel)
    /\ systemChannelID = ""
    /\ SysChannel \notin Entries
    /\ \E ch \in chains \cap AppChannels :
           /\ info[ch].joinNum = -1
           /\ info[ch].height >= 2
           /\ info[ch].status = "active"
           /\ info[ch].relation = "consenter"

\* C20: in every state the channel list holds, for each application channel,
\* exactly one short entry if the node has an entry of the channel and none
\* otherwise, each with the name and the address
\* /participation/v1/channels/<name> of the channel, and nothing else; the
\* system channel is reported apart, if and only if the node has an entry of
\* it; and the answer to a list request is that list, with status 200.
C20_ListMatchesEntries ==
    [][/\ \A ch \in AppChannels :
              CopiesIn([name |-> ch, url |-> "/participation/v1/channels/" \o ch],
                       ChannelList.channels) = IF ch \in Entries THEN 1 ELSE 0
       /\ \A e \in BagToSet(ChannelList.channels) :
              e.name \in AppChannels /\ e.url = "/participation/v1/channels/" \o e.name
       /\ ChannelList.systemChannel # {} <=> SysChannel \in Entries
       /\ ChannelList.systemChannel \subseteq
              {[name |-> SysChannel, url |-> "/participation/v1/channels/systemchannel"]}
       /\ ListStep => (resp'.body = ChannelList /\ resp'.code = 200)]_vars

\* A list was answered on a node that holds the system channel and an
\* application channel.
C20_Witness ==
    /\ resp.op = "list"
    /\ resp.body = ChannelList
    /\ resp.body.systemChannel # {}
    /\ \E ch \in AppChannels : CopiesIn(ChannelInfoShort(ch), resp.body.channels) = 1

\* The system channel was joined through the API and the node was restarted
\* since.
SystemJoinedAndRestarted ==
    /\ systemChannelID = SysChannel
    /\ info[SysChannel].joinNum >= 0
    /\ sysStarted

\* C21 as stated, its last part: a system channel joined through the API
\* eventually reports status active once the node was restarted.
C21_AsStated ==
    SystemJoinedAndRestarted ~> (info[SysChannel].status = "active")

\* C21 amended: an accepted join of the system channel answers inactive,
\* consenter, height 1 for the genesis block and 0 for a later configuration
\* block; until the node is restarted the entry stays as it is, inactive and
\* committing nothing; and after the restart it eventually is active, unless
\* the system channel is removed or the node commits a configuration block of
\* the system channel whose consenter set does not hold it.
C21_SystemJoinNeedsRestart ==
    /\ [][\A blk \in JoinBlocks(SysChannel) :
            (JoinStepWith(SysChannel, blk) /\ resp'.err = "none") =>
                /\ Entries = {}
                /\ resp'.code = 201
                /\ resp'.status = "inactive"
                /\ resp'.relation = "consenter"
                /\ resp'.height = IF blk.num = 0 THEN 1 ELSE 0
                /\ info'[SysChannel].status = "inactive"
                /\ ~ sysStarted']_vars
    /\ [][(systemChannelID = SysChannel /\ ~ sysStarted) =>
                /\ info[SysChannel].status = "inactive"
                /\ ~ ENABLED CommitSysBlock
                /\ (systemChannelID' = SysChannel /\ ~ sysStarted') =>
                       info'[SysChannel] = info[SysChannel]]_vars
    /\ SystemJoinedAndRestarted ~>
            \/ info[SysChannel].status = "active"
            \/ SysChannel \notin Entries
            \/ info[SysChannel].relation # "consenter"

\* A system channel joined with a later configuration block is active, past
\* the join block, after a restart.
C21_Witness ==
    /\ systemChannelID = SysChannel
    /\ info[SysChannel].joinNum > 0
    /\ sysStarted
    /\ info[SysChannel].status = "active"
    /\ info[SysChannel].height > info[SysChannel].joinNum

\* C22 as stated: while the node holds a system channel, every join request,
\* for whatever channel ID, is rejected with SystemChannelExists (405).
C22_AsStated ==
    [][\A ch \in Channels :
          (systemChannelID # "" /\ JoinStep(ch)) =>
              (resp'.err = "SystemChannelExists" /\ resp'.code = 405)]_vars

\* C22 amended: while the node holds a system channel, every join request
\* that carries a configuration block is rejected with SystemChannelExists
\* (405), for the ID of the system channel as for any other, with or without
\* an entry of that ID; a join request with another block is rejected with
\* InvalidJoinBlock (400); neither changes an entry.
C22_SystemCheckBeforeExists ==
    [][\A ch \in Channels : \A blk \in JoinBlocks(ch) :
          (systemChannelID # "" /\ JoinStepWith(ch, blk)) =>
              /\ systemChannelID \in Entries
              /\ resp'.err = IF IsConfigBlock(blk) THEN "SystemChannelExists"
                             ELSE "InvalidJoinBlock"
              /\ resp'.code = IF IsConfigBlock(blk) THEN 405 ELSE 400
              /\ UNCHANGED registry]_vars

\* A join of the system channel's own ID was rejected because the system
\* channel exists.
C22_Witness ==
    /\ resp.op = "join"
    /\ resp.ch = systemChannelID
    /\ resp.ch \in Entries
    /\ resp.err = "SystemChannelExists"
    /\ resp.code = 405

\* The first step of the loading order that fails for the files of the run,
\* with its cause; <<>> when all succeed.
FirstFailure ==
    IF cli.keyPair = "missing"
    THEN <<"loading server cert/key pair", "no such file or directory">>
    ELSE IF cli.caFile = "missing"
    THEN <<"reading ca.crt", "no such file or directory">>
    ELSE IF cli.caFile = "empty"
    THEN <<"decoding ca.crt PEM", "empty block">>
    ELSE IF cli.caFile = "key"
    THEN <<"decoding ca.crt PEM", "expected CERTIFICATE got EC PRIVATE KEY">>
    ELSE IF cli.caFile = "badcert"
    THEN <<"decoding ca.crt PEM", "x509: malformed certificate">>
    ELSE IF cli.configBlock = "missing"
    THEN <<"reading config block", "no such file or directory">>
    ELSE <<>>

\* C23: a run whose key pair, ca.crt or configuration block fails to load
\* ends, once the configuration was loaded, with "Error: <step>: <cause>" of
\* the first step that fails in the order key pair, reading ca.crt, decoding
\* ca.crt, reading the configuration block, with exit code 1 and without a
\* request sent; a run whose files all load goes on to send its request.
C23_ConfigErrorsInOrder ==
    cli.pc \notin {"idle", "parsed"} =>
        IF FirstFailure # <<>>
        THEN /\ cli.pc = "exited"
             /\ cli.out = "Error: " \o FirstFailure[1] \o ": " \o FirstFailure[2]
             /\ cli.code = 1
             /\ cli.sent = 0
        ELSE /\ cli.pc = "exited" => cli.sent = 1
             /\ cli.pc = "configured" => (cli.sent = 0 /\ cli.code = -1)

\* A join whose key pair is missing, whose ca.crt is no certificate and whose
\* configuration block is missing ended with the error of the key pair.
C23_Witness ==
    /\ cli.command = "join"
    /\ cli.keyPair = "missing"
    /\ cli.caFile = "key"
    /\ cli.configBlock = "missing"
    /\ cli.pc = "exited"
    /\ cli.out = "Error: loading server cert/key pair: no such file or directory"
    /\ cli.code = 1

C26_ActiveOnlyCaughtUp ==
    [][\A ch \in Channels :
          /\ (/\ info[ch].joinNum > 0
              /\ info[ch].status = "onboarding"
              /\ info'[ch].status = "active") =>
                 /\ info[ch].height >= info[ch].joinNum + 1
                 /\ info[ch].height = Len(chain[ch])
                 /\ info'[ch].height = info[ch].height
                 /\ info'[ch].joinNum = info[ch].joinNum
          /\ (info[ch].joinNum > 0 /\ info[ch].status = "active") =>
                 (ch \in Entries /\ info[ch].height >= info[ch].joinNum + 1)]_vars

\* An entry created by a join with a block of number > 0 has become active,
\* at the height of the channel.
C26_Witness ==
    \E ch \in AppChannels :
        /\ ch \in Entries
        /\ info[ch].joinNum > 0
        /\ info[ch].status = "active"
        /\ info[ch].height >= info[ch].joinNum + 1
        /\ resp = NoResp

ActiveFollowerBehind(ch, n) ==
    /\ ch \in followers
    /\ info[ch].status = "active"
    /\ info[ch].relation = "follower"
    /\ n <= Len(chain[ch])

\* C28 as stated: an active follower of a channel eventually holds every
\* block the channel's consensus group has committed.
C28_AsStated ==
    \A ch \in AppChannels : \A n \in 1..MaxBlocks :
        ActiveFollowerBehind(ch, n) ~> (info[ch].height >= n)

\* C28 amended: a consenter that commits a configuration block without
\* itself on a node without system channel is an active follower from that
\* commit on, run by a follower.Chain; a pull leaves an active follower active;
\* and an active follower eventually holds every block the consensus group of
\* the channel has committed, unless the channel is removed from the node.
C28_FollowerKeepsReplicating ==
    /\ [][\A ch \in AppChannels :
            /\ (/\ systemChannelID = ""
                /\ ch \in chains
                /\ info[ch].relation = "consenter"
                /\ Commits(ch, ConfigOut)) =>
                   /\ info'[ch].status = "active"
                   /\ info'[ch].relation = "follower"
                   /\ ch \in followers' /\ ch \notin chains'
            /\ (info[ch].status = "active" /\ info[ch].relation = "follower"
                /\ ch \in followers /\ PullBlock(ch)) =>
                   info'[ch].status = "active"]_vars
    /\ \A ch \in AppChannels : \A n \in 1..MaxBlocks :
            ActiveFollowerBehind(ch, n) ~> (info[ch].height >= n \/ ch \notin Entries)

\* An evicted consenter, now an active follower, holds the transaction block
\* committed after its eviction.
C28_Witness ==
    \E ch \in followers :
        /\ info[ch].joinNum = 0
        /\ info[ch].status = "active"
        /\ info[ch].relation = "follower"
        /\ chain[ch][1] = ConfigIn
        /\ info[ch].height = Len(chain[ch])
        /\ \E n \in 2..(info[ch].height - 1) :
               chain[ch][n] = ConfigOut /\ chain[ch][n + 1] = TxBlock

\* The newest configuration block in the node's ledger of ch has a consenter
\* set without this node.
ExcludedByLedger(ch) ==
    /\ info[ch].height >= 1
    /\ \E n \in 1..info[ch].height :
           /\ Ledger(ch)[n] = ConfigOut
           /\ \A m \in (n + 1)..info[ch].height : ~ IsConfigKind(Ledger(ch)[m])

\* C29: while the node holds a system channel, an application channel whose
\* newest configuration block in the node's ledger leaves the node out of the
\* consenter set is listed inactive and config-tracker, its ledger ends with
\* that configuration block (block 1, the genesis block, when the node never
\* was a consenter), and no step that leaves it config-tracker under the
\* system channel changes its height, whatever the consenters commit.
C29_TrackerHeightFrozen ==
    /\ [](\A ch \in Entries \cap AppChannels :
            (systemChannelID # "" /\ ExcludedByLedger(ch)) =>
                /\ info[ch].status = "inactive"
                /\ info[ch].relation = "config-tracker"
                /\ chain[ch][info[ch].height] = ConfigOut
                /\ ch \in chains /\ ch \notin followers)
    /\ [][\A ch \in AppChannels :
            (/\ systemChannelID # "" /\ systemChannelID' # ""
             /\ ch \in Entries /\ ch \in Entries'
             /\ info[ch].relation = "config-tracker"
             /\ info'[ch].relation = "config-tracker") =>
                /\ info'[ch].height = info[ch].height
                /\ info'[ch].status = "inactive"]_vars

\* Under a system channel the node tracks a channel it never was a consenter
\* of at height 1, while the consenters have committed a transaction block.
C29_Witness ==
    /\ systemChannelID = SysChannel
    /\ sysStarted
    /\ \E ch \in chains \cap AppChannels :
           /\ info[ch].relation = "config-tracker"
           /\ info[ch].status = "inactive"
           /\ info[ch].height = 1
           /\ chain[ch] = <<ConfigOut, TxBlock>>

\* Under a system channel the node has committed the configuration block that
\* excluded it from a channel it was a consenter of.
C29_EvictedWitness ==
    /\ systemChannelID = SysChannel
    /\ \E ch \in chains \cap AppChannels :
           /\ info[ch].relation = "config-tracker"
           /\ info[ch].height = 2
           /\ chain[ch] = <<ConfigIn, ConfigOut>>

\* The relation the consenter set of a join block gives this node.
RelationOfBlock(blk) == IF IsMember(blk) THEN "consenter" ELSE "follower"

\* C30 as stated: every accepted join answers, and stores, the relation that
\* the consenter set of the supplied block gives the node: consenter when the
\* set holds the node, follower otherwise, whatever the number of the block.
C30_RelationFromJoinBlock ==
    [][\A ch \in Channels : \A blk \in JoinBlocks(ch) :
          (JoinStepWith(ch, blk) /\ resp'.err = "none") =>
              /\ resp'.relation = RelationOfBlock(blk)
              /\ info'[ch].relation = RelationOfBlock(blk)]_vars

\* C30 for the joins of application channels only, where it holds.
C30_ApplicationChannelJoins ==
    [][\A ch \in AppChannels : \A blk \in JoinBlocks(ch) :
          (JoinStepWith(ch, blk) /\ resp'.err = "none") =>
              /\ resp'.relation = RelationOfBlock(blk)
              /\ info'[ch].relation = RelationOfBlock(blk)]_vars

\* A join with a later configuration block whose consenter set holds the node
\* was answered onboarding and consenter.
C30_LaterBlockWitness ==
    /\ Accepted("join", resp.ch)
    /\ resp.ch \in AppChannels
    /\ resp.relation = "consenter"
    /\ resp.status = "onboarding"
    /\ info[resp.ch].joinNum >= 1

\* A join of the system channel with a block whose consenter set does not
\* hold the node was answered consenter.
C30_SystemJoinOfNonMember ==
    /\ Accepted("join", SysChannel)
    /\ resp.relation = "consenter"
    /\ chain[SysChannel][info[SysChannel].joinNum + 1] = ConfigOut

\* C31: the status of an entry turns onboarding only in the step of an
\* accepted join that creates the entry; an entry that is active or inactive
\* is not onboarding after any step it survives; and an entry disappears only
\* in the step of an accepted remove of its channel.
C31_StatusGraph ==
    [][\A ch \in Channels :
          /\ (info'[ch].status = "onboarding" /\ info[ch].status # "onboarding") =>
                 /\ ch \notin Entries
                 /\ resp'.op = "join" /\ resp'.ch = ch /\ resp'.err = "none"
          /\ (ch \in Entries /\ ch \in Entries'
              /\ info[ch].status \in {"active", "inactive"}) =>
                 info'[ch].status \in {"active", "inactive"}
          /\ (ch \in Entries /\ ch \notin Entries') =>
                 resp'.op = "remove" /\ resp'.ch = ch /\ resp'.err = "none"
          /\ ch \in Entries' => info'[ch].status \in {"onboarding", "active", "inactive"}]_vars

\* One channel, joined with a later configuration block, has gone from
\* onboarding to active and committed a block since, while the entry of
\* another channel was just removed.
C31_Witness ==
    /\ resp.op = "remove" /\ resp.err = "none"
    /\ resp.ch \notin Entries
    /\ \E ch \in Entries \cap AppChannels :
           /\ ch # resp.ch
           /\ info[ch].joinNum >= 1
           /\ info[ch].status = "active"
           /\ info[ch].height > info[ch].joinNum + 1

\* C32: in every state the registrar's systemChannelID is set exactly when
\* the node holds a system channel entry; a join of the system channel is
\* accepted only on a node without entries and a join of an application channel
\* only on a node without system channel entry, however the requests in flight
\* interleave, so that of a system channel join and an application channel join
\* sent together to an empty node at most one is accepted.
C32_SystemFlagAtomic ==
    /\ []((systemChannelID # "") <=> (SysChannel \in Entries))
    /\ [](SysChannel \in Entries =>
             \A ch \in Entries \cap AppChannels : info[ch].joinNum = -1)
    /\ [][\A ch \in Channels :
            (resp'.op = "join" /\ resp'.ch = ch /\ resp'.err = "none") =>
                /\ ch = SysChannel => Entries = {}
                /\ ch \in AppChannels => (SysChannel \notin Entries /\ systemChannelID = "")
                /\ (systemChannelID' # "") <=> (ch = SysChannel)]_vars

\* The join of the system channel was accepted on an empty node while the
\* join of an application channel is in flight.
C32_Witness ==
    /\ Accepted("join", SysChannel)
    /\ Entries = {SysChannel}
    /\ systemChannelID = SysChannel
    /\ \E r \in inflight : r.op = "join" /\ r.ch \in AppChannels /\ IsConfigBlock(r.blk)

\* The join of an application channel was accepted on an empty node while the
\* join of the system channel is in flight.
C32_AppFirstWitness ==
    /\ resp.op = "join" /\ resp.err = "none" /\ resp.ch \in AppChannels
    /\ systemChannelID = ""
    /\ \E r \in inflight : r.op = "join" /\ r.ch = SysChannel /\ IsConfigBlock(r.blk)

\* What the node holds of channel ch: its entry and the chain that runs it.
EntryOf(ch) == <<info[ch], ch \in chains, ch \in followers>>

\* The step is an operation of channel ch: a join or remove request for ch,
\* a commit of its consensus.Chain, a step of its puller or of its onboarding.
OperationOf(ch) ==
    \/ resp'.op \in {"join", "remove"} /\ resp'.ch = ch
    \/ /\ resp'.op = "none"
       /\ \/ ch \in AppChannels /\ CommitBlock(ch)
          \/ ch \in AppChannels /\ PullBlock(ch)
          \/ ch \in AppChannels /\ PullBadBlock(ch)
          \/ ch \in AppChannels /\ FinishOnboarding(ch)
          \/ ch \in AppChannels /\ TrackerRejoin(ch)
          \/ ch = SysChannel /\ CommitSysBlock

\* The guards of the steps a channel takes by itself.
CommitBlockReady(ch) ==
    /\ ch \in chains \cap AppChannels
    /\ info[ch].status = "active"
    /\ info[ch].relation = "consenter"
    /\ info[ch].height < Len(chain[ch])

PullBlockReady(ch) == ch \in followers /\ info[ch].height < Len(chain[ch])

FinishOnboardingReady(ch) ==
    /\ ch \in followers
    /\ info[ch].status = "onboarding"
    /\ info[ch].height > info[ch].joinNum
    /\ info[ch].height = Len(chain[ch])

\* The system channel commits the block that creates application channel ch.
CreatesChannel(ch) ==
    /\ CommitSysBlock
    /\ ch \in AppChannels
    /\ ch \notin Entries
    /\ chain[SysChannel][info[SysChannel].height + 1] = ch

\* C33 as stated: an operation of channel x leaves the entry of every other
\* channel y as it was.
C33_AsStated ==
    [][\A x \in Channels : OperationOf(x) =>
          \A y \in Channels \ {x} : EntryOf(y)' = EntryOf(y)]_vars

\* C33 amended: an operation of channel x leaves the entry of every other
\* channel y as it was, except that the system channel's commit of the block
\* that creates application channel y creates the entry of y; and a commit, a
\* pull or the end of onboarding that channel x is ready for stays ready
\* through every step that is not an operation of x.
C33_OtherChannelsUnchanged ==
    /\ [][\A x \in Channels : OperationOf(x) =>
            \A y \in Channels \ {x} :
                \/ EntryOf(y)' = EntryOf(y)
                \/ /\ x = SysChannel
                   /\ CreatesChannel(y)
                   /\ info'[y] = CreatedInfo(chain[y][1])]_vars
    /\ [][\A x \in AppChannels : (~ OperationOf(x) /\ EntryOf(x)' = EntryOf(x)) =>
            /\ CommitBlockReady(x) => CommitBlockReady(x)'
            /\ PullBlockReady(x) => PullBlockReady(x)'
            /\ FinishOnboardingReady(x) =>
                  (FinishOnboardingReady(x)' \/ PullBlockReady(x)')]_vars
    /\ [](\A x \in AppChannels :
            /\ CommitBlockReady(x) <=> ENABLED CommitBlock(x)
            /\ PullBlockReady(x) <=> ENABLED PullBlock(x)
            /\ FinishOnboardingReady(x) <=> ENABLED FinishOnboarding(x))

\* A channel was removed from the node while the node holds another channel
\* it is an active consenter of.
C33_Witness ==
    /\ resp.op = "remove" /\ resp.err = "none" /\ resp.ch \in AppChannels
    /\ \E y \in chains \cap AppChannels :
           /\ y # resp.ch
           /\ info[y].status = "active"
           /\ info[y].relation = "consenter"
           /\ info[y].joinNum = 0

\* The step handles a commit notification: a consensus.Chain or a puller
\* commits a block, or an inactive channel is taken up again.
CommitStep ==
    /\ resp'.op = "none"
    /\ \/ CommitSysBlock
       \/ \E ch \in AppChannels :
              CommitBlock(ch) \/ PullBlock(ch) \/ TrackerRejoin(ch)

\* No join or remove step alters height, relation or the number of the last
\* configuration block of an entry that persists, and only a commit step does.
OnlyCommitsWriteFields ==
    \A ch \in Channels :
        (/\ ch \in Entries /\ ch \in Entries'
         /\ \/ info'[ch].height # info[ch].height
            \/ info'[ch].relation # info[ch].relation
            \/ LastConfigBlockNumber(ch)' # LastConfigBlockNumber(ch)) =>
                /\ resp'.op \notin {"join", "remove"}
                /\ CommitStep

\* Only an accepted join creates an entry, with the state the join block gives.
OnlyJoinCreates ==
    \A ch \in Channels :
        (ch \notin Entries /\ ch \in Entries') =>
            /\ resp'.op = "join" /\ resp'.ch = ch /\ resp'.err = "none"
            /\ \E blk \in JoinBlocks(ch) : info'[ch] = JoinInfo(blk)

\* Only an accepted remove deletes an entry.
OnlyRemoveDeletes ==
    \A ch \in Channels :
        (ch \in Entries /\ ch \notin Entries') =>
            resp'.op = "remove" /\ resp'.ch = ch /\ resp'.err = "none"

C35_OnboardingWitness ==
    \E ch \in followers : info[ch].status = "onboarding" /\ info[ch].height = 0

\* The errors the registrar answers a join or remove request with.
RequestErrors ==
    {"InvalidJoinBlock", "ChannelAlreadyExists", "ChannelNotExist",
     "SystemChannelExists", "ApplicationChannelsExist"}

C36_Sequential ==
    [][(resp'.op \in {"join", "remove"} /\ resp'.err # "none") =>
          /\ resp'.err \in RequestErrors
          /\ UNCHANGED registry
          /\ UNCHANGED chain
          /\ inflight' = {}]_vars

\* The fetched block f comes from a task that was cancelled: its channel has
\* no entry, or the entry runs a later task.
IsLate(f) == f.ch \notin Entries \/ f.gen # tasks.gen[f.ch]

C37_LatePendingWitness ==
    \E f \in tasks.fetched :
        /\ f.ch \in Entries
        /\ f.gen < tasks.gen[f.ch]
        /\ f.num = info[f.ch].height

\* C38: two orderers that hold a channel hold the same block at every number
\* below both heights, each block at the place of its number, and no
\* orderer's ledger is longer than the chain the consensus group of the channel
\* has committed, of which it is a prefix.
C38_LedgersAgree ==
    \A ch \in AppChannels :
        /\ \A o, p \in Orderers :
              (ledgers[o][ch].held /\ ledgers[p][ch].held) =>
                  \A n \in 1 .. HeightOf(o, ch) :
                      n <= HeightOf(p, ch) =>
                          ledgers[o][ch].blocks[n] = ledgers[p][ch].blocks[n]
        /\ \A o \in Orderers :
              /\ HeightOf(o, ch) <= Len(chain[ch])
              /\ \A n \in 1 .. HeightOf(o, ch) :
                    ledgers[o][ch].blocks[n] = BlockOf(ch, n - 1)
              /\ ~ ledgers[o][ch].held => ledgers[o][ch].blocks = <<>>

\* Two orderers hold the channel at different heights above 1, the shorter
\* ledger filled from the join with a later block on, so by pulls and commits.
C38_Witness ==
    \E ch \in AppChannels : \E o, p \in Orderers :
        /\ ledgers[o][ch].held /\ ledgers[p][ch].held
        /\ HeightOf(o, ch) = 2
        /\ HeightOf(p, ch) = 3
        /\ ledgers[p][ch].blocks[2].kind # ledgers[p][ch].blocks[3].kind

\* C39 as stated: an active entry has height at least 1, an entry with
\* height 0 was created by a join with a block of number above 0, and from
\* height 1 on the number of the last configuration block in the ledger is
\* below the height.
C39_AsStated ==
    \A ch \in Entries :
        /\ info[ch].status = "active" => info[ch].height >= 1
        /\ info[ch].height = 0 => info[ch].joinNum >= 1
        /\ info[ch].height >= 1 =>
               (LastConfigBlockNumber(ch) >= 0 /\ LastConfigBlockNumber(ch) < info[ch].height)

\* C39 amended: an active entry has height at least 1; an entry with height 0
\* was created by a join, either with a block of number above 0 or with the
\* genesis block of an application channel whose consenter set does not hold
\* the node, and is not active; and from height 1 on the number of the last
\* configuration block in the ledger is below the height.
C39_FieldsConsistent ==
    \A ch \in Entries :
        /\ info[ch].status = "active" => info[ch].height >= 1
        /\ info[ch].height = 0 =>
               /\ info[ch].status \in {"onboarding", "inactive"}
               /\ \/ info[ch].joinNum >= 1
                  \/ /\ info[ch].joinNum = 0
                     /\ ch \in AppChannels
                     /\ chain[ch][1] = ConfigOut
                     /\ info[ch].relation = "follower"
        /\ info[ch].height >= 1 =>
               (LastConfigBlockNumber(ch) >= 0 /\ LastConfigBlockNumber(ch) < info[ch].height)
        /\ info[ch].height <= Len(chain[ch])

\* An entry joined with a later configuration block is active at a height
\* above that block's number, and its last configuration block is not its
\* last block.
C39_Witness ==
    \E ch \in Entries \cap AppChannels :
        /\ info[ch].joinNum >= 1
        /\ info[ch].status = "active"
        /\ info[ch].height = 3
        /\ LastConfigBlockNumber(ch) = 1

\* An entry joined with the genesis block of a channel that does not hold the
\* node is onboarding at height 0.
C39_GenesisFollowerWitness ==
    \E ch \in followers :
        info[ch].joinNum = 0 /\ info[ch].height = 0 /\ info[ch].status = "onboarding"

\* C40: whenever a run of the command line is at printResponse, the request
\* function has returned a response that is not nil.
C40_PrintResponseNeedsResponse ==
    cli.pc = "printResponse" => ~ cli.respNil

\* The run was given too few flags and has reached printResponse without a
\* response and without an error printed.
C40_TooFewFlags ==
    /\ cli.pc = "panicked"
    /\ ~ EnoughFlags(cli)
    /\ cli.out = ""
    /\ cli.sent = 0

\* C40 for the osnadmin command line (cmd/osnadmin), where it holds: the run
\* is at printResponse only after the one request it sent was answered, and a
\* run that failed before has printed the error and ended with exit code 1.
C40_OsnadminPrintsResponses ==
    /\ cli.pc = "responded" => (cli.sent = 1 /\ cli.code = -1 /\ ConfigFromFlags(cli) = "")
    /\ (cli.pc = "exited" /\ cli.code = 1 /\ cli.sent = 0) =>
           cli.out = "Error: " \o ConfigFromFlags(cli)
====
